---- MODULE Spec2Model ----
(***************************************************************************)
(* Model of the idempotent install engine of ishida722/setup:              *)
(* InstallCommand.Install and its helpers checkInstalled,                  *)
(* runInstallCommands and getVersion (package installer).                  *)
(*                                                                         *)
(* Strings are sequences of one-character strings, so that strings.Fields  *)
(* and strings.TrimSpace are computed rather than assumed.  Every call of  *)
(* an external program is one step whose exit status and captured output   *)
(* are chosen by the environment; the executed calls are recorded in log.  *)
(***************************************************************************)
EXTENDS Integers, Sequences, FiniteSets, TLC

\* ------------------------------------------------------------- bounds ----
MaxProbes == 2
MaxSteps == 2

\* Command specifications a Task may list: "", " ", "a", " b  v".
CmdStrs ==
  { <<>>, <<" ">>, <<"a">>, <<" ", "b", " ", " ", "v">> }

\* Raw captured outputs of a succeeding probe: "1", " 2\n".
Outputs ==
  { <<"1">>, <<" ", "2", "\n">> }

SeqsUpTo(S, n) ==
  UNION { [1..k -> S] : k \in 0..n }

\* ------------------------------------------------------- string helpers --
Empty == <<>>

\* unicode.IsSpace restricted to the characters that occur here
IsSpace(c) ==
  c \in {" ", "\t", "\n", "\r"}

RECURSIVE FieldsAcc(_, _, _, _)
FieldsAcc(s, k, cur, acc) ==
  IF k > Len(s)
    THEN IF cur = <<>> THEN acc ELSE Append(acc, cur)
    ELSE IF IsSpace(s[k])
      THEN FieldsAcc(s, k + 1, <<>>, IF cur = <<>> THEN acc ELSE Append(acc, cur))
      ELSE FieldsAcc(s, k + 1, Append(cur, s[k]), acc)

\* strings.Fields: the maximal runs of non-space characters
Fields(s) ==
  FieldsAcc(s, 1, <<>>, <<>>)

RECURSIVE TrimLeft(_)
TrimLeft(s) ==
  IF s # <<>> /\ IsSpace(Head(s)) THEN TrimLeft(Tail(s)) ELSE s

RECURSIVE TrimRight(_)
TrimRight(s) ==
  IF s # <<>> /\ IsSpace(s[Len(s)]) THEN TrimRight(SubSeq(s, 1, Len(s) - 1)) ELSE s

\* strings.TrimSpace
TrimSpace(s) ==
  TrimRight(TrimLeft(s))

\* ---------------------------------------------------------------- data ---
\* error values: Nil is Go's nil error
Nil == [kind |-> "nil", idx |-> 0]
ExecError(i) == [kind |-> "exec", idx |-> i]
CustomError == [kind |-> "custom", idx |-> 0]

\* InstallFunc field: nil, defaultInstallFunc, or a custom func that
\* returns nil / returns an error
InstallFuncs == {"nil", "default", "custom_ok", "custom_fail"}

InstallCommand ==
  [CheckCommands : SeqsUpTo(CmdStrs, MaxProbes),
   InstallCommands : SeqsUpTo(CmdStrs, MaxSteps),
   InstallFunc : InstallFuncs,
   Name : {"Tool"}]

InstallResult(already, success, version, err) ==
  [AlreadyInstalled |-> already, Success |-> success,
   Version |-> version, Err |-> err]

defaultInstallFunc == Nil

VARIABLES
  cmd,      \* the receiver of Install(): an InstallCommand
  pc,       \* position inside Install()
  i,        \* index of the range loop currently running (1-based)
  ret,      \* ret[1]: locals installed, version, err of Install (line 369)
            \* ret[2]: locals installed, version, err of getVersion (line 352)
  log,      \* external calls made so far, in order
  result,   \* the InstallResult returned (meaningful when pc = "Done")
  run       \* one run of an entry point (orchestrator): a record, see InitRun

vars == <<cmd, pc, i, ret, log, result, run>>

\* the variables of one Install() invocation
engineVars == <<cmd, pc, i, ret, log, result>>

NoRet == [returned |-> FALSE, installed |-> FALSE, version |-> Empty, err |-> Nil]
CheckRet(installed, version, err) ==
  [returned |-> TRUE, installed |-> installed, version |-> version, err |-> err]

ZeroResult == InstallResult(FALSE, FALSE, Empty, Nil)

\* no entry point is running: Install() is called on its own
NoRun == [kind |-> "none"]

Init ==
  /\ cmd \in InstallCommand
  /\ pc = "Idle"
  /\ i = 1
  /\ ret = [p \in 1..2 |-> NoRet]
  /\ log = <<>>
  /\ result = ZeroResult
  /\ run = NoRun

\* --------------------------------------------------- external programs ---
\* what one execution of an external program can report
ProbeOutcomes ==
  [ok : {TRUE}, out : Outputs] \cup [ok : {FALSE}, out : {Empty, <<"1">>}]

Event(kind, pass, idx, argv, fn, ok, out) ==
  [kind |-> kind, pass |-> pass, idx |-> idx, argv |-> argv, fn |-> fn,
   ok |-> ok, out |-> out]

\* NoTokens that never skips
NoTokensNever(parts) ==
  Len(parts) < 0

\* ------------------------------------------------------ pure fragments ---
\* line 319 / 336: a specification with no token is skipped
NoTokens(parts) ==
  Len(parts) = 0

\* FoundRet without strings.TrimSpace
FoundRetRaw(output) ==
  CheckRet(TRUE, output, Nil)

\* line 325-327: the return of checkInstalled on the first succeeding probe
FoundRet(output) ==
  CheckRet(TRUE, TrimSpace(output), Nil)

\* NotFoundRet reporting the failure of the probes as an error
NotFoundRetError ==
  CheckRet(FALSE, Empty, ExecError(0))

\* line 329: the return of checkInstalled when the loop is exhausted
NotFoundRet ==
  CheckRet(FALSE, Empty, Nil)

\* getVersion reporting an error when no probe succeeds
getVersionStrict(r) ==
  IF ~r.installed \/ r.err # Nil
    THEN [version |-> Empty, err |-> IF r.err # Nil THEN r.err ELSE [kind |-> "version", idx |-> 0]]
    ELSE [version |-> r.version, err |-> Nil]

\* getVersion, lines 351-357, applied to what checkInstalled returned
getVersion(r) ==
  IF ~r.installed \/ r.err # Nil
    THEN [version |-> Empty, err |-> r.err]
    ELSE [version |-> r.version, err |-> Nil]

\* FailureResult dropping the error
FailureResultNoErr(err) ==
  InstallResult(FALSE, FALSE, Empty, Nil)

\* lines 372-377, 396-401, 412-417, 424-429
FailureResult(err) ==
  InstallResult(FALSE, FALSE, Empty, err)

\* AlreadyInstalledResult leaving Success at its zero value
AlreadyInstalledResultNoSuccess(version) ==
  InstallResult(TRUE, FALSE, version, Nil)

\* lines 382-387
AlreadyInstalledResult(version) ==
  InstallResult(TRUE, TRUE, version, Nil)

\* lines 433-438
SuccessResult(finalVersion) ==
  InstallResult(FALSE, TRUE, finalVersion, Nil)

\* AfterCheck without the already-installed return of lines 380-388
AfterCheckAlwaysInstall(r) ==
  IF r.err # Nil
    THEN [pc |-> "Done", result |-> FailureResult(r.err)]
    ELSE [pc |-> "Installing", result |-> result]

\* AfterCheck without the error return of lines 370-378
AfterCheckIgnoreDetectError(r) ==
  IF r.installed /\ r.err = Nil
    THEN [pc |-> "Done", result |-> AlreadyInstalledResult(r.version)]
    ELSE [pc |-> "Installing", result |-> result]

\* lines 370-391: what Install does with the result of CheckInstalled
AfterCheck(r) ==
  IF r.err # Nil
    THEN [pc |-> "Done", result |-> FailureResult(r.err)]
    ELSE IF r.installed
      THEN [pc |-> "Done", result |-> AlreadyInstalledResult(r.version)]
      ELSE [pc |-> "Installing", result |-> result]

\* AfterVersion treating an empty version as a failure
AfterVersionNeedsVersion(v) ==
  IF v.err # Nil \/ v.version = Empty
    THEN FailureResult(v.err)
    ELSE SuccessResult(v.version)

\* lines 421-438: what Install does with the result of getVersion
AfterVersion(v) ==
  IF v.err # Nil
    THEN FailureResult(v.err)
    ELSE SuccessResult(v.version)

\* EffectiveInstallFunc without the replacement of nil
EffectiveInstallFuncAsGiven(f) ==
  f

\* lines 405-408: the function Install calls as custom action
EffectiveInstallFunc(f) ==
  IF f = "nil" THEN "default" ELSE f

\* the error returned by calling an install function
CallInstallFunc(f) ==
  IF f = "custom_fail" THEN CustomError
  ELSE IF f = "default" THEN defaultInstallFunc
  ELSE Nil

\* ------------------------------------------------------------- actions ---
InChecking == pc \in {"Checking", "VersionResolving"}
Pass == IF pc = "Checking" THEN 1 ELSE 2

\* Install is called: line 369 enters checkInstalled
Invoke ==
  /\ pc = "Idle"
  /\ pc' = "Checking"
  /\ i' = 1
  /\ UNCHANGED <<cmd, ret, log, result, run>>

\* checkInstalled returns r, to Install (line 369) or to getVersion (line 352)
CheckReturns(r) ==
  IF pc = "Checking"
    THEN /\ ret' = [ret EXCEPT ![1] = r]
         /\ pc' = AfterCheck(r).pc
         /\ result' = AfterCheck(r).result
         /\ i' = 1
    ELSE /\ ret' = [ret EXCEPT ![2] = r]
         /\ pc' = "Done"
         /\ result' = AfterVersion(getVersion(r))
         /\ i' = 1

\* checkInstalled, lines 318-321: a probe without tokens is skipped
CheckSkip ==
  /\ InChecking
  /\ i <= Len(cmd.CheckCommands)
  /\ NoTokens(Fields(cmd.CheckCommands[i]))
  /\ i' = i + 1
  /\ UNCHANGED <<cmd, pc, ret, log, result, run>>

\* checkInstalled, lines 323-327: run one probe
CheckExec ==
  /\ InChecking
  /\ i <= Len(cmd.CheckCommands)
  /\ LET parts == Fields(cmd.CheckCommands[i]) IN
       /\ ~NoTokens(parts)
       /\ \E o \in ProbeOutcomes :
            /\ log' = Append(log, Event("probe", Pass, i, parts, "", o.ok, o.out))
            /\ IF o.ok
                 THEN CheckReturns(FoundRet(o.out))
                 ELSE /\ i' = i + 1
                      /\ UNCHANGED <<pc, ret, result>>
  /\ UNCHANGED <<cmd, run>>

\* checkInstalled, line 329: no probe succeeded
CheckExhausted ==
  /\ InChecking
  /\ i > Len(cmd.CheckCommands)
  /\ CheckReturns(NotFoundRet)
  /\ UNCHANGED <<cmd, log, run>>

\* runInstallCommands, lines 335-338: a step without tokens is skipped
StepSkip ==
  /\ pc = "Installing"
  /\ i <= Len(cmd.InstallCommands)
  /\ NoTokens(Fields(cmd.InstallCommands[i]))
  /\ i' = i + 1
  /\ UNCHANGED <<cmd, pc, ret, log, result, run>>

\* AfterStep going on to the next step after a failure
AfterStepIgnoreError(ok) ==
  [pc |-> "Installing", i |-> i + 1, result |-> result]

\* AfterStep where a failing step unwinds Install instead of returning
AfterStepPanic(ok) ==
  IF ok
    THEN [pc |-> "Installing", i |-> i + 1, result |-> result]
    ELSE [pc |-> "Panic", i |-> 1, result |-> result]

\* lines 343-345 and 394-402: what follows the exit status of step i
AfterStep(ok) ==
  IF ok
    THEN [pc |-> "Installing", i |-> i + 1, result |-> result]
    ELSE [pc |-> "Done", i |-> 1, result |-> FailureResult(ExecError(i))]

\* runInstallCommands, lines 340-345, and Install, lines 394-402
StepExec ==
  /\ pc = "Installing"
  /\ i <= Len(cmd.InstallCommands)
  /\ LET parts == Fields(cmd.InstallCommands[i]) IN
       /\ ~NoTokens(parts)
       /\ \E ok \in BOOLEAN :
            /\ log' = Append(log, Event("step", 0, i, parts, "", ok, Empty))
            /\ pc' = AfterStep(ok).pc
            /\ i' = AfterStep(ok).i
            /\ result' = AfterStep(ok).result
  /\ UNCHANGED <<cmd, ret, run>>

\* runInstallCommands, line 347: all steps done, Install goes on at line 404
StepsDone ==
  /\ pc = "Installing"
  /\ i > Len(cmd.InstallCommands)
  /\ pc' = "CustomAction"
  /\ i' = 1
  /\ UNCHANGED <<cmd, ret, log, result, run>>

\* AfterCustom going on to version resolution after a failure
AfterCustomIgnoreError(err) ==
  [pc |-> "VersionResolving", result |-> result]

\* lines 410-421: what follows the error returned by the install function
AfterCustom(err) ==
  IF err # Nil
    THEN [pc |-> "Done", result |-> FailureResult(err)]
    ELSE [pc |-> "VersionResolving", result |-> result]

\* CustomAction storing the default install function in the Task
CustomActionStoringDefault ==
  /\ pc = "CustomAction"
  /\ LET installFunc == EffectiveInstallFunc(cmd.InstallFunc)
         err == CallInstallFunc(installFunc) IN
       /\ cmd' = [cmd EXCEPT !.InstallFunc = installFunc]
       /\ log' = Append(log, Event("custom", 0, 0, <<>>, installFunc, err = Nil, Empty))
       /\ pc' = AfterCustom(err).pc
       /\ result' = AfterCustom(err).result
  /\ i' = 1
  /\ UNCHANGED <<ret, run>>

\* Install, lines 404-421: the custom install function
CustomAction ==
  /\ pc = "CustomAction"
  /\ LET installFunc == EffectiveInstallFunc(cmd.InstallFunc)
         err == CallInstallFunc(installFunc) IN
       /\ log' = Append(log, Event("custom", 0, 0, <<>>, installFunc, err = Nil, Empty))
       /\ pc' = AfterCustom(err).pc
       /\ result' = AfterCustom(err).result
  /\ i' = 1
  /\ UNCHANGED <<cmd, ret, run>>

Next ==
  \/ Invoke
  \/ CheckSkip
  \/ CheckExec
  \/ CheckExhausted
  \/ StepSkip
  \/ StepExec
  \/ StepsDone
  \/ CustomAction

Spec == Init /\ [][Next]_vars

\* ------------------------------------------------- observations on log ---
ProbeEvents(p) ==
  SelectSeq(log, LAMBDA e : e.kind = "probe" /\ e.pass = p)

StepEvents ==
  SelectSeq(log, LAMBDA e : e.kind = "step")

CustomEvents ==
  SelectSeq(log, LAMBDA e : e.kind = "custom")

\* some probe of pass p exited successfully
ProbeSucceeded(p) ==
  \E k \in 1..Len(ProbeEvents(p)) : ProbeEvents(p)[k].ok

StepFailed ==
  \E k \in 1..Len(StepEvents) : ~StepEvents[k].ok

CustomSucceeded ==
  \E k \in 1..Len(CustomEvents) : CustomEvents[k].ok

CustomFailed ==
  \E k \in 1..Len(CustomEvents) : ~CustomEvents[k].ok

\* a command specification consisting of white space only
AllSpace(s) ==
  \A k \in 1..Len(s) : s[k] \in {" ", "\t", "\n", "\r"}

\* the indices of the specifications of list l that name a program
Runnable(l) ==
  {k \in 1..Len(l) : ~AllSpace(l[k])}

\* ------------------------------------------------------------- claims ----
\* C1: idempotence.  Whenever the initial detection succeeded (some probe of
\* the first pass exited successfully), no install step and no custom action
\* has been executed, whatever InstallCommands and InstallFunc contain.
C1_Idempotence ==
  ProbeSucceeded(1) => (Len(StepEvents) = 0 /\ Len(CustomEvents) = 0)

\* Install returned after a successful detection although the Task lists a
\* runnable install step and a custom function
C1_Witness ==
  /\ pc = "Done"
  /\ ProbeSucceeded(1)
  /\ Runnable(cmd.InstallCommands) # {}
  /\ cmd.InstallFunc = "custom_fail"

\* Install returned after: detection failed, every step and the custom action
\* succeeded, and the second run of the probes found no succeeding probe
ReprobeFailedAfterInstall ==
  /\ pc = "Done"
  /\ ~ProbeSucceeded(1)
  /\ ~StepFailed
  /\ CustomSucceeded
  /\ ~ProbeSucceeded(2)

C3_Original ==
  (pc = "Done" /\ ~ProbeSucceeded(1) /\ ~ProbeSucceeded(2) /\ ~StepFailed) =>
    (result.Success /\ ~result.AlreadyInstalled /\ result.Err = Nil)

\* C3 amended: for a Task whose probes never succeed, whose install steps all
\* succeed and whose custom action does not fail, Install returns
\* Success = true and AlreadyInstalled = false with no error.
C3_NotInstalledSucceeds ==
  (pc = "Done" /\ ~ProbeSucceeded(1) /\ ~ProbeSucceeded(2) /\ ~StepFailed
     /\ ~CustomFailed) =>
    (result.Success /\ ~result.AlreadyInstalled /\ result.Err = Nil)

\* the case of the tests: one failing probe, steps succeed, a custom function
\* that returns nil
C3_Witness ==
  /\ pc = "Done"
  /\ Len(ProbeEvents(1)) > 0 /\ ~ProbeSucceeded(1)
  /\ Len(ProbeEvents(2)) > 0 /\ ~ProbeSucceeded(2)
  /\ Len(StepEvents) > 0 /\ ~StepFailed
  /\ cmd.InstallFunc = "custom_ok"
  /\ result.Success

\* v is out without its leading and trailing white space
IsTrimOf(v, out) ==
  /\ v # <<>> => (v[1] \notin {" ", "\t", "\n", "\r"}
                   /\ v[Len(v)] \notin {" ", "\t", "\n", "\r"})
  /\ \E a \in 0..Len(out) :
       /\ a + Len(v) <= Len(out)
       /\ SubSeq(out, a + 1, a + Len(v)) = v
       /\ AllSpace(SubSeq(out, 1, a))
       /\ AllSpace(SubSeq(out, a + Len(v) + 1, Len(out)))

\* the events es ran the runnable specifications of list l in list order,
\* without leaving one out, up to the last one they ran
InListOrder(es, l) ==
  /\ \A a, b \in 1..Len(es) : a < b => es[a].idx < es[b].idx
  /\ Len(es) > 0 =>
       {es[a].idx : a \in 1..Len(es)} = {k \in Runnable(l) : k <= es[Len(es)].idx}

\* C4: probe ordering.  In each pass the probes run in listed order; a
\* succeeding probe is the last probe of its pass (none after it is run); and
\* checkInstalled then returns installed = true with that probe's output
\* trimmed of surrounding white space, which an already-installed outcome
\* carries as its version.
C4_ProbeOrdering ==
  \A p \in 1..2 :
    LET pe == ProbeEvents(p) IN
      /\ InListOrder(pe, cmd.CheckCommands)
      /\ \A a \in 1..Len(pe) : pe[a].ok =>
           /\ a = Len(pe)
           /\ ret[p].returned /\ ret[p].installed /\ ret[p].err = Nil
           /\ IsTrimOf(ret[p].version, pe[a].out)
           /\ (p = 1 => pc = "Done" /\ result.AlreadyInstalled
                          /\ result.Version = ret[p].version)

\* probes [A, B]: A failed, B succeeded printing " 2\n", the version is "2"
C4_Witness ==
  /\ Len(ProbeEvents(1)) = 2
  /\ ~ProbeEvents(1)[1].ok
  /\ ProbeEvents(1)[2].ok
  /\ ProbeEvents(1)[2].out = <<" ", "2", "\n">>
  /\ ret[1].installed
  /\ ret[1].version = <<"2">>

\* C5: when checkInstalled returns and no probe of that pass succeeded (every
\* probe failed, or the list is empty), it returns installed = false, an empty
\* version and a nil error.
C5_AllProbesFail ==
  \A p \in 1..2 :
    (ret[p].returned /\ ~ProbeSucceeded(p)) =>
      (~ret[p].installed /\ ret[p].version = Empty /\ ret[p].err = Nil)

\* two probes ran, both failed, and detection returned
C5_Witness ==
  /\ ret[1].returned
  /\ Len(ProbeEvents(1)) = 2
  /\ ~ProbeSucceeded(1)
  /\ ~ret[1].installed

\* C6: a probe specification without tokens is never executed and never
\* counts as a match: detection goes on with the next probe, so a pass that
\* returns without a succeeding probe has run every runnable probe, and a list
\* of white-space-only specifications yields installed = false without
\* running anything.
C6_EmptyProbeSkipped ==
  \A p \in 1..2 :
    LET pe == ProbeEvents(p) IN
      /\ \A a \in 1..Len(pe) : ~AllSpace(cmd.CheckCommands[pe[a].idx])
      /\ (ret[p].returned /\ ~ProbeSucceeded(p)) =>
           {pe[a].idx : a \in 1..Len(pe)} = Runnable(cmd.CheckCommands)
      /\ (ret[p].returned /\ Runnable(cmd.CheckCommands) = {}) =>
           (~ret[p].installed /\ Len(pe) = 0)

\* probes [" ", "a"]: the first is skipped, the second is run and succeeds
C6_Witness ==
  /\ Len(cmd.CheckCommands) = 2
  /\ AllSpace(cmd.CheckCommands[1])
  /\ cmd.CheckCommands[1] # <<>>
  /\ Len(ProbeEvents(1)) = 1
  /\ ProbeEvents(1)[1].idx = 2
  /\ ret[1].installed

\* C7: install steps run in list order; a failing step is the last external
\* call of the invocation (no later step, no custom action, no re-probe), and
\* Install has returned success = false, alreadyInstalled = false with that
\* step's error.
C7_FirstFailingStepAborts ==
  /\ InListOrder(StepEvents, cmd.InstallCommands)
  /\ \A k \in 1..Len(log) : (log[k].kind = "step" /\ ~log[k].ok) =>
       /\ k = Len(log)
       /\ pc = "Done"
       /\ ~result.Success /\ ~result.AlreadyInstalled
       /\ result.Err = ExecError(log[k].idx)

\* steps ["a", " b  v"]: the first failed and the second was never run
C7_Witness ==
  /\ pc = "Done"
  /\ Cardinality(Runnable(cmd.InstallCommands)) = 2
  /\ Len(StepEvents) = 1
  /\ ~StepEvents[1].ok
  /\ result.Err = ExecError(1)

\* C8: the custom action runs at most once, only after detection failed and
\* every runnable install step ran and succeeded; when Install has returned it
\* ran exactly once in that case and not at all otherwise; when it fails,
\* Install returns success = false, alreadyInstalled = false with its error.
C8_CustomActionOnce ==
  /\ Len(CustomEvents) <= 1
  /\ \A k \in 1..Len(log) : log[k].kind = "custom" =>
       /\ ~ProbeSucceeded(1) /\ ret[1].returned
       /\ ~StepFailed
       /\ {StepEvents[a].idx : a \in 1..Len(StepEvents)} = Runnable(cmd.InstallCommands)
       /\ \A j \in 1..Len(log) : log[j].kind = "step" => j < k
       /\ ~log[k].ok =>
            /\ pc = "Done" /\ k = Len(log)
            /\ ~result.Success /\ ~result.AlreadyInstalled
            /\ result.Err = CustomError
  /\ pc = "Done" =>
       Len(CustomEvents) = IF ~ProbeSucceeded(1) /\ ~StepFailed THEN 1 ELSE 0

\* the failing custom function ran after the install step had run
C8_Witness ==
  /\ pc = "Done"
  /\ CustomFailed
  /\ Len(StepEvents) > 0
  /\ result.Err = CustomError

\* C9: every returned outcome with alreadyInstalled = true has
\* success = true and a nil error.
C9_AlreadyInstalledImpliesSuccess ==
  (pc = "Done" /\ result.AlreadyInstalled) => (result.Success /\ result.Err = Nil)

\* an already-installed outcome was returned
C9_Witness ==
  /\ pc = "Done"
  /\ result.AlreadyInstalled
  /\ result.Version # Empty

\* C10: every returned outcome carries a non-nil error if and only if
\* success = false.
C10_ErrorIffFailure ==
  pc = "Done" => ((result.Err # Nil) <=> ~result.Success)

\* a failed outcome carrying the error of a step was returned
C10_Witness ==
  /\ pc = "Done"
  /\ ~result.Success
  /\ result.Err.kind = "exec"

\* ------------------------------------------- engine state machine (C11) ---
\* the state of the engine of spec 4.4 that a position of Install stands for;
\* NotInstalled and Installed are passed through without a step of their own
EngineState ==
  CASE pc = "Idle" -> "Idle"
    [] pc = "Checking" -> "Checking"
    [] pc \in {"Installing", "CustomAction"} -> "Installing"
    [] pc = "VersionResolving" -> "VersionResolving"
    [] OTHER ->
         IF ret[1].err # Nil THEN "DetectionFailed"
         ELSE IF ProbeSucceeded(1) THEN "AlreadyInstalled"
         ELSE IF StepFailed \/ CustomFailed THEN "InstallFailed"
         ELSE IF ProbeSucceeded(2) THEN "Success"
         ELSE "VersionUnknown"

\* the listed edges, and staying in a state while its loop runs
EngineEdges ==
  { <<"Idle", "Checking">>,
    <<"Checking", "Checking">>,
    <<"Checking", "AlreadyInstalled">>,
    <<"Checking", "Installing">>,
    <<"Installing", "Installing">>,
    <<"Installing", "InstallFailed">>,
    <<"Installing", "VersionResolving">>,
    <<"VersionResolving", "VersionResolving">>,
    <<"VersionResolving", "Success">>,
    <<"VersionResolving", "VersionUnknown">> }

\* every step follows a listed edge; Installing is entered only when detection
\* returned not-installed, VersionResolving only when every runnable step and
\* the custom action succeeded
EngineStepOK ==
  /\ <<EngineState, EngineState'>> \in EngineEdges
  /\ (EngineState = "Checking" /\ EngineState' = "Installing") =>
       (ret'[1].returned /\ ~ret'[1].installed /\ ~ProbeSucceeded(1)')
  /\ (EngineState = "Installing" /\ EngineState' = "VersionResolving") =>
       /\ ~StepFailed' /\ CustomSucceeded'
       /\ {StepEvents[a].idx : a \in 1..Len(StepEvents)} = Runnable(cmd.InstallCommands)

Op(name, via) == [name |-> name, via |-> via, effect |-> TRUE, ign |-> FALSE]

OpIgn(name, via) == [name |-> name, via |-> via, effect |-> TRUE, ign |-> TRUE]

Query(name, via) == [name |-> name, via |-> via, effect |-> FALSE, ign |-> FALSE]

\* a Task: its display name, the tool it sets up, whether it can fail before
\* running any command, and the command sequences its branches can run
TaskDef(name, tool, pre, variants) ==
  [name |-> name, tool |-> tool, pre |-> pre, variants |-> variants]

\* the outcomes of one branch: every command succeeded, or the j-th command
\* failed (and its error is not ignored) after the first j - 1
RunsOfVariant(v) ==
  {[ok |-> TRUE, ops |-> v]}
    \cup {[ok |-> FALSE, ops |-> SubSeq(v, 1, j)] : j \in {n \in 1..Len(v) : ~v[n].ign}}

RunsOf(t) ==
  (IF t.pre THEN {[ok |-> FALSE, ops |-> <<>>]} ELSE {})
    \cup UNION {RunsOfVariant(v) : v \in t.variants}

\* ------------------------------------------ legacy Go Setup (src/main.go) --
CloneConfigs ==
  LET mk == Op("os.MkdirAll ~/.config", "direct")
      nv == Op("git clone https://github.com/ishida722/nvim", "direct")
      fi == Op("git clone https://github.com/ishida722/fish", "direct")
  IN TaskDef("CloneConfigs", "Config Files", TRUE,
             {<<mk>>, <<mk, nv>>, <<mk, fi>>, <<mk, nv, fi>>})

InstallNodeJS ==
  TaskDef("InstallNodeJS", "Node.js", FALSE,
          {<<>>,
           <<Op("bash -c curl -fsSL https://deb.nodesource.com/setup_lts.x | sudo -E bash -", "direct"),
             Op("sudo apt-get install -y nodejs", "direct")>>})

InstallClaudeCode ==
  TaskDef("InstallClaudeCode", "Claude Code", FALSE,
          {<<>>, <<Op("npm install -g @anthropic-ai/claude-code", "direct")>>})

InstallNeovim ==
  TaskDef("InstallNeovim", "Neovim", FALSE,
          {<<>>,
           <<Op("curl -LO nvim-linux-x86_64.tar.gz", "direct"),
             OpIgn("sudo rm -rf /opt/nvim", "direct"),
             Op("sudo tar -C /opt -xzf nvim-linux-x86_64.tar.gz", "direct"),
             OpIgn("os.Remove nvim-linux-x86_64.tar.gz", "direct")>>})

InstallFish ==
  LET up == Op("sudo apt-get update", "direct")
      in == Op("sudo apt-get install -y fish", "direct")
      lp == Query("exec.LookPath fish", "direct")
      ch == Op("chsh -s fish", "direct")
  IN TaskDef("InstallFish", "Fish Shell", FALSE,
             {<<lp>>, <<lp, ch>>, <<up, in, lp>>, <<up, in, lp, ch>>})

\* Setup.Run's calls, in order
SetupTasks ==
  <<CloneConfigs, InstallNodeJS, InstallClaudeCode, InstallNeovim, InstallFish>>

\* -------------------- engine Tasks of the combined entry point (main) -----
\* ExecuteInstall(nodeCmd): already installed, or the install steps in order
\* (each split into argv and executed directly); ok is InstallResult.Success
ExecuteInstallNode ==
  TaskDef("ExecuteInstall(nodeCmd)", "Node.js", FALSE,
          {<<>>,
           <<Op("curl -fsSL https://deb.nodesource.com/setup_lts.x | sudo -E bash -", "direct"),
             Op("sudo apt-get install -y nodejs", "direct")>>})

ExecuteInstallClaude ==
  TaskDef("ExecuteInstall(claudeCmd)", "Claude Code", FALSE,
          {<<>>, <<Op("npm install -g @anthropic-ai/claude-code", "direct")>>})

\* main() calls the engine for these, then Setup.Run
MainEngineTasks == <<ExecuteInstallNode, ExecuteInstallClaude>>

MainTasks == MainEngineTasks \o SetupTasks

\* ------------------------- Installers of the Runner (installer package) ---
ConfigCloner ==
  LET mk == Op("pathHelper.EnsureDir ~/.config", "direct")
      nv == Op("git clone https://github.com/ishida722/nvim", "cmdRunner")
      fi == Op("git clone https://github.com/ishida722/fish", "cmdRunner")
  IN TaskDef("Config Files", "Config Files", TRUE,
             {<<mk>>, <<mk, nv>>, <<mk, fi>>, <<mk, nv, fi>>})

NodeJSInstaller ==
  TaskDef("Node.js", "Node.js", FALSE,
          {<<>>,
           <<Op("curl -fsSL https://deb.nodesource.com/setup_lts.x", "cmdRunner"),
             Op("sudo apt-get install -y nodejs", "cmdRunner")>>})

ClaudeCodeInstaller ==
  TaskDef("Claude Code", "Claude Code", FALSE,
          {<<>>, <<Op("npm install -g @anthropic-ai/claude-code", "cmdRunner")>>})

NeovimInstaller ==
  TaskDef("Neovim", "Neovim", FALSE,
          {<<>>,
           <<Op("curl -LO nvim-linux-x86_64.tar.gz", "cmdRunner"),
             OpIgn("sudo rm -rf /opt/nvim", "cmdRunner"),
             Op("sudo tar -C /opt -xzf nvim-linux-x86_64.tar.gz", "cmdRunner"),
             OpIgn("rm -f nvim-linux-x86_64.tar.gz", "cmdRunner")>>})

FishInstaller ==
  LET up == Op("sudo apt-get update", "cmdRunner")
      in == Op("sudo apt-get install -y fish", "cmdRunner")
      wh == Query("which fish", "cmdRunner")
      ch == Op("chsh -s fish", "cmdRunner")
  IN TaskDef("Fish Shell", "Fish Shell", FALSE,
             {<<wh>>, <<wh, ch>>, <<up, in, wh>>, <<up, in, wh, ch>>})

\* Runner.initializeInstallers
initializeInstallers ==
  <<ConfigCloner, NodeJSInstaller, ClaudeCodeInstaller, NeovimInstaller, FishInstaller>>

\* what Installer.IsInstalled can return in the post-install check: only
\* ConfigCloner.IsInstalled has an error return
IsInstalledOutcomes(t) ==
  IF t.name = "Config Files" THEN {"error", "missing", "installed"}
  ELSE {"missing", "installed"}

\* the pre-install checks of the Runner, in the order they are made
PreChecks ==
  << "FileExists /etc/debian_version",
     "CommandExists curl", "CommandExists git", "CommandExists sudo", "CommandExists tar",
     "curl -sf --max-time 10 https://deb.nodesource.com",
     "curl -sf --max-time 10 https://github.com",
     "curl -sf --max-time 10 https://registry.npmjs.org",
     "sudo -n true", "pathHelper.HomeDir", "DirExists homeDir" >>

QueryIgn(name, via) == [name |-> name, via |-> via, effect |-> FALSE, ign |-> TRUE]

\* ------------------------------ shell script with set -e (older script) ---
\* under set -e the first failing simple command ends the script, so a
\* function either runs all its commands or stops at the failing one
clone_configs_sete ==
  LET mk == Op("mkdir -p ~/.config", "direct")
      nv == Op("git clone https://github.com/ishida722/nvim", "direct")
      fi == Op("git clone https://github.com/ishida722/fish", "direct")
  IN TaskDef("clone_configs", "Config Files", FALSE,
             {<<mk>>, <<mk, nv>>, <<mk, fi>>, <<mk, nv, fi>>})

install_nodejs_sete ==
  TaskDef("install_nodejs", "Node.js", FALSE,
          {<<>>,
           <<Op("curl -fsSL https://deb.nodesource.com/setup_lts.x | sudo -E bash -", "direct"),
             Op("sudo apt-get install -y nodejs", "direct")>>})

install_claude_code_sete ==
  TaskDef("install_claude_code", "Claude Code", FALSE,
          {<<>>, <<Op("npm install -g @anthropic-ai/claude-code", "direct")>>})

install_neovim_sete ==
  TaskDef("install_neovim", "Neovim", FALSE,
          {<<>>,
           <<Op("curl -LO nvim-linux-x86_64.tar.gz", "direct"),
             Op("sudo rm -rf /opt/nvim", "direct"),
             Op("sudo tar -C /opt -xzf nvim-linux-x86_64.tar.gz", "direct")>>})

install_fish_sete ==
  LET up == Op("sudo apt-get update", "direct")
      in == Op("sudo apt-get install -y fish", "direct")
      wh == Query("which fish", "direct")
      ch == Op("chsh -s fish", "direct")
  IN TaskDef("install_fish", "Fish Shell", FALSE,
             {<<wh>>, <<wh, ch>>, <<up, in, wh>>, <<up, in, wh, ch>>})

SetETasks ==
  <<clone_configs_sete, install_nodejs_sete, install_claude_code_sete,
    install_neovim_sete, install_fish_sete>>

\* ------------------------------------- continue-on-error script (setup.sh) -
\* every command is followed by "|| return 1" unless noted
clone_configs ==
  LET mk == Op("mkdir -p ~/.config", "direct")
      nv == Op("git clone https://github.com/ishida722/nvim", "direct")
      fi == Op("git clone https://github.com/ishida722/fish", "direct")
  IN TaskDef("clone_configs", "Config Files", FALSE,
             {<<mk>>, <<mk, nv>>, <<mk, fi>>, <<mk, nv, fi>>})

install_nodejs ==
  TaskDef("install_nodejs", "Node.js", FALSE,
          {<<>>,
           <<Op("curl -fsSL https://deb.nodesource.com/setup_lts.x | sudo -E bash -", "direct"),
             Op("sudo apt-get install -y nodejs", "direct")>>})

install_claude_code ==
  TaskDef("install_claude_code", "Claude Code", FALSE,
          {<<>>, <<Op("sudo npm install -g @anthropic-ai/claude-code", "direct")>>})

install_neovim ==
  TaskDef("install_neovim", "Neovim", FALSE,
          {<<>>,
           <<Op("curl -LO nvim-linux-x86_64.tar.gz", "direct"),
             Op("sudo rm -rf /opt/nvim", "direct"),
             Op("sudo tar -C /opt -xzf nvim-linux-x86_64.tar.gz", "direct")>>})

install_yazi ==
  TaskDef("install_yazi", "Yazi", FALSE,
          {<<>>,
           <<Op("sudo apt-get update", "direct"),
             Op("sudo apt-get install -y file", "direct"),
             Op("sudo apt-get install -y ffmpeg p7zip-full jq ...", "direct"),
             QueryIgn("uname -m", "direct"),
             Query("ARCH is x86_64 or aarch64", "direct"),
             Query("curl -s api.github.com/repos/sxyazi/yazi/releases/latest | grep | cut", "direct"),
             Query("YAZI_URL is not empty", "direct"),
             Query("cd /tmp", "direct"),
             Op("curl -L YAZI_URL -o yazi.tar.gz", "direct"),
             Op("tar -xzf yazi.tar.gz", "direct"),
             Query("cd yazi-*", "direct"),
             Op("sudo cp yazi /usr/local/bin/", "direct"),
             Op("sudo cp ya /usr/local/bin/", "direct"),
             Op("sudo chmod +x /usr/local/bin/yazi /usr/local/bin/ya", "direct"),
             Query("cd /", "direct"),
             Op("rm -rf /tmp/yazi*", "direct")>>})

install_lazygit ==
  TaskDef("install_lazygit", "Lazygit", FALSE,
          {<<>>,
           <<Op("sudo apt-get update", "direct"),
             Op("sudo apt-get install -y lazygit", "direct")>>})

\* "which fish" is unguarded and a failing chsh returns 0
install_fish ==
  LET up == Op("sudo apt-get update", "direct")
      in == Op("sudo apt-get install -y fish", "direct")
      wh == QueryIgn("which fish", "direct")
      ch == OpIgn("chsh -s fish", "direct")
  IN TaskDef("install_fish", "Fish Shell", FALSE,
             {<<wh>>, <<wh, ch>>, <<up, in, wh>>, <<up, in, wh, ch>>})

\* main's run_with_error_handling calls, in order
SetupShTasks ==
  <<clone_configs, install_nodejs, install_claude_code, install_neovim,
    install_yazi, install_lazygit, install_fish>>

\* ------------------------------------------------- the state of one run ---
Kinds == {"Setup", "Main", "Runner", "SetE", "SetupSh"}

\* the Tasks an entry point declares, in order
Tasks(kind) ==
  CASE kind = "Setup" -> SetupTasks
    [] kind = "Main" -> MainTasks
    [] kind = "Runner" -> initializeInstallers
    [] kind = "SetE" -> SetETasks
    [] OTHER -> SetupShTasks

\* pc: "Start" (Runner.Run entered), "Preflight" (check j is next),
\* "Tasks" (Task k is next), "InTask" (Install of Task k is running),
\* "Postflight" (Installer j is checked next), "Exit" (the process ended);
\* ctxDone: the time budget has run out, expiredAt: how many Tasks had
\* returned when it did (-1 before), pre: the results of the pre-install
\* checks made,
\* started / report: the Tasks begun / returned, execs: the commands run,
\* post: the post-install findings, errors: the length of the errors slice
\* of postInstallCheck, postRet: what postInstallCheck returned (-1 before
\* it returns, 0 = nil, n > 0 = the error reporting n errors),
\* err: the error of the run,
\* exit: "running", or the exit status "0" / "1" (1 = any non-zero status)
InitRun(kind, dry) ==
  [kind |-> kind, pc |-> IF kind = "Runner" THEN "Start" ELSE "Tasks",
   j |-> 1, k |-> 1, dryRun |-> dry, ctxDone |-> FALSE, expiredAt |-> -1,
   pre |-> <<>>, started |-> <<>>, report |-> <<>>, execs |-> <<>>, post |-> <<>>,
   errors |-> 0, postRet |-> -1,
   err |-> "nil", exit |-> "running"]

\* every entry point; the Runner with and without --dry-run
InitRuns == {InitRun(kind, FALSE) : kind \in Kinds} \cup {InitRun("Runner", TRUE)}

\* Install() is not running while an entry point is modelled Task by Task
InitOrch ==
  /\ cmd = [CheckCommands |-> <<>>, InstallCommands |-> <<>>,
            InstallFunc |-> "nil", Name |-> "Tool"]
  /\ pc = "Idle"
  /\ i = 1
  /\ ret = <<NoRet, NoRet>>
  /\ log = <<>>
  /\ result = ZeroResult
  /\ run \in InitRuns

\* a command handed to the mock CommandRunner changes nothing on the machine
MockHasEffect == FALSE

\* does executing op change the machine?
IsReal(op, dry) ==
  op.effect /\ (IF op.via = "cmdRunner" /\ dry THEN MockHasEffect ELSE TRUE)

\* the commands of one Task call, as recorded in run.execs
Executed(t, ops, dry) ==
  [n \in 1..Len(ops) |->
     [tool |-> t.tool, task |-> t.name, name |-> ops[n].name,
      effect |-> ops[n].effect, real |-> IsReal(ops[n], dry)]]

Started(s, t) == [s EXCEPT !.started = Append(@, t.name)]

Returned(s, t, r) ==
  [s EXCEPT !.report = Append(@, [name |-> t.name, ok |-> r.ok]),
            !.execs = @ \o Executed(t, r.ops, s.dryRun)]

ExitWith(s, err, status) == [s EXCEPT !.pc = "Exit", !.err = err, !.exit = status]

\* --------------------------------------------- legacy Setup.Run and main --
\* Setup.Run returns the first error; main exits 1 on it
SetupRunAfterIgnoreError(s, ok) == [s EXCEPT !.k = @ + 1]

SetupRunAfter(s, ok) ==
  IF ok THEN [s EXCEPT !.k = @ + 1] ELSE ExitWith(s, "install", "1")

\* one "if err := s.X(); err != nil { return ... }" of Setup.Run, or its
\* "return nil" after the last one (main then returns: exit status 0)
SetupRunTask ==
  /\ run.kind \in {"Setup", "Main"}
  /\ run.pc = "Tasks"
  /\ run.kind = "Main" => run.k > Len(MainEngineTasks)
  /\ IF run.k > Len(Tasks(run.kind))
       THEN run' = ExitWith(run, "nil", "0")
       ELSE LET t == Tasks(run.kind)[run.k]
            IN \E r \in RunsOf(t) :
                 run' = SetupRunAfter(Returned(Started(run, t), t, r), r.ok)
  /\ UNCHANGED engineVars

\* main of the combined entry point: ExecuteInstall(nodeCmd) and
\* ExecuteInstall(claudeCmd); the results are only printed
MainExecuteInstall ==
  /\ run.kind = "Main"
  /\ run.pc = "Tasks"
  /\ run.k <= Len(MainEngineTasks)
  /\ LET t == Tasks(run.kind)[run.k]
     IN \E r \in RunsOf(t) :
          run' = [Returned(Started(run, t), t, r) EXCEPT !.k = @ + 1]
  /\ UNCHANGED engineVars

\* ---------------------------------------------------- the shell scripts ---
\* set -e: the script ends with the failing command's status
SetEAfter(s, ok) ==
  IF ok THEN [s EXCEPT !.k = @ + 1] ELSE ExitWith(s, "install", "1")

\* one function call of main under set -e, or the echo lines that end main
SetETask ==
  /\ run.kind = "SetE"
  /\ run.pc = "Tasks"
  /\ IF run.k > Len(SetETasks)
       THEN run' = ExitWith(run, "nil", "0")
       ELSE LET t == SetETasks[run.k]
            IN \E r \in RunsOf(t) :
                 run' = SetEAfter(Returned(Started(run, t), t, r), r.ok)
  /\ UNCHANGED engineVars

\* run_with_error_handling: logs the failure and returns 1; main does not
\* look at the status
run_with_error_handlingAbort(s, ok) ==
  IF ok THEN [s EXCEPT !.k = @ + 1] ELSE ExitWith(s, "install", "1")

run_with_error_handling(s, ok) == [s EXCEPT !.k = @ + 1]

\* the exit status of setup.sh is the status of main's last echo
SetupShExit(s) == ExitWith(s, "nil", "0")

\* one run_with_error_handling line of main, or the echo lines that end it
SetupShTask ==
  /\ run.kind = "SetupSh"
  /\ run.pc = "Tasks"
  /\ IF run.k > Len(SetupShTasks)
       THEN run' = SetupShExit(run)
       ELSE LET t == SetupShTasks[run.k]
            IN \E r \in RunsOf(t) :
                 run' = run_with_error_handling(Returned(Started(run, t), t, r), r.ok)
  /\ UNCHANGED engineVars

\* ------------------------------------------------- Runner.Run and main ----
\* Runner.Run: initializeInstallers (never fails), then the pre-install check
RunInitialize ==
  /\ run.kind = "Runner"
  /\ run.pc = "Start"
  /\ run' = [run EXCEPT !.pc = "Preflight", !.j = 1]
  /\ UNCHANGED engineVars

\* context.WithTimeout: the budget can run out at any moment of the run
ctxTimeout ==
  /\ run.kind = "Runner"
  /\ run.pc # "Exit"
  /\ ~run.ctxDone
  /\ run' = [run EXCEPT !.ctxDone = TRUE, !.expiredAt = Len(run.report)]
  /\ UNCHANGED engineVars

\* a failed check makes preInstallCheck, then Run, return the error
PreCheckAfterIgnoreError(s, ok) ==
  IF s.j = Len(PreChecks) THEN [s EXCEPT !.pc = "Tasks", !.k = 1]
  ELSE [s EXCEPT !.j = @ + 1]

PreCheckAfter(s, ok) ==
  IF ~ok THEN ExitWith(s, "preflight", "1")
  ELSE IF s.j = Len(PreChecks) THEN [s EXCEPT !.pc = "Tasks", !.k = 1]
  ELSE [s EXCEPT !.j = @ + 1]

\* one check of checkSystemRequirements, checkNetworkConnectivity or
\* checkPermissions
preInstallCheck ==
  /\ run.kind = "Runner"
  /\ run.pc = "Preflight"
  /\ \E ok \in BOOLEAN : run' = PreCheckAfter([run EXCEPT !.pre = Append(@, ok)], ok)
  /\ UNCHANGED engineVars

\* Select starting the next Installer together with this one
SelectTwoAtOnce(s) ==
  IF s.k > Len(initializeInstallers) THEN [s EXCEPT !.pc = "Postflight", !.j = 1]
  ELSE IF s.ctxDone THEN ExitWith(s, "ctx", "1")
  ELSE LET a == Started(s, initializeInstallers[s.k])
           b == IF s.k < Len(initializeInstallers)
                  THEN Started(a, initializeInstallers[s.k + 1]) ELSE a
       IN [b EXCEPT !.pc = "InTask"]

\* the loop head of runInstallers: the select on ctx.Done(), then the call
\* of Install; after the last Installer the loop ends
Select(s) ==
  IF s.k > Len(initializeInstallers) THEN [s EXCEPT !.pc = "Postflight", !.j = 1]
  ELSE IF s.ctxDone THEN ExitWith(s, "ctx", "1")
  ELSE [Started(s, initializeInstallers[s.k]) EXCEPT !.pc = "InTask"]

runInstallersSelect ==
  /\ run.kind = "Runner"
  /\ run.pc = "Tasks"
  /\ run' = Select(run)
  /\ UNCHANGED engineVars

\* inst.Install(ctx) returns: an error ends runInstallers and Run
InstallAfter(s, ok) ==
  IF ok THEN [s EXCEPT !.pc = "Tasks", !.k = @ + 1]
  ELSE ExitWith(s, "install", "1")

runInstallersInstall ==
  /\ run.kind = "Runner"
  /\ run.pc = "InTask"
  /\ LET t == initializeInstallers[run.k]
     IN \E r \in RunsOf(t) : run' = InstallAfter(Returned(run, t, r), r.ok)
  /\ UNCHANGED engineVars

\* postInstallCheck returning at the first Installer that fails the check
PostCheckAfterStopAtFirst(s, o) ==
  IF o = "installed" THEN [s EXCEPT !.j = @ + 1]
  ELSE [s EXCEPT !.errors = @ + 1, !.j = Len(initializeInstallers) + 1]

\* the body of the loop of postInstallCheck: a failed check is appended to
\* errors and the loop goes on
PostCheckAfter(s, o) ==
  [s EXCEPT !.errors = IF o = "installed" THEN @ ELSE @ + 1, !.j = @ + 1]

\* one iteration of postInstallCheck: IsInstalled of Installer j
postInstallCheck ==
  /\ run.kind = "Runner"
  /\ run.pc = "Postflight"
  /\ run.j <= Len(initializeInstallers)
  /\ \E o \in IsInstalledOutcomes(initializeInstallers[run.j]) :
       run' = PostCheckAfter([run EXCEPT !.post = Append(@, o)], o)
  /\ UNCHANGED engineVars

\* the errors postInstallCheck collected
PostErrors(s) == {n \in 1..Len(s.post) : s.post[n] # "installed"}

\* postInstallCheck returns; Run logs its error and returns nil, main exits 0
RunReturnStrict(s) ==
  IF PostErrors(s) # {} THEN ExitWith(s, "postflight", "1") ELSE ExitWith(s, "nil", "0")

RunReturn(s) == ExitWith(s, "nil", "0")

postInstallCheckReturns ==
  /\ run.kind = "Runner"
  /\ run.pc = "Postflight"
  /\ run.j > Len(initializeInstallers)
  /\ run' = RunReturn([run EXCEPT !.postRet = run.errors])
  /\ UNCHANGED engineVars

\* ------------------------------------------- the entry points, one run ----
NextRun ==
  \/ SetupRunTask
  \/ MainExecuteInstall
  \/ SetETask
  \/ SetupShTask
  \/ RunInitialize
  \/ ctxTimeout
  \/ preInstallCheck
  \/ runInstallersSelect
  \/ runInstallersInstall
  \/ postInstallCheck
  \/ postInstallCheckReturns

SpecRun == InitOrch /\ [][NextRun]_vars

\* type check of a run
RunTypeOK ==
  /\ run.kind \in Kinds
  /\ run.pc \in {"Start", "Preflight", "Tasks", "InTask", "Postflight", "Exit"}
  /\ run.exit \in {"running", "0", "1"}
  /\ (run.pc = "Exit") <=> (run.exit # "running")
  /\ Len(run.report) <= Len(Tasks(run.kind))

\* ------------------------------------------------------------- claims -----
\* the names of the first n declared Tasks of the running entry point
DeclaredPrefix(n) == [m \in 1..n |-> Tasks(run.kind)[m].name]

\* the positions of the Tasks that have failed so far
FailedTasks == {n \in 1..Len(run.report) : ~run.report[n].ok}

\* the entry points that implement the fail-fast policy
FailFastKinds == {"Setup", "Runner", "SetE"}

\* C12: fail-fast (Setup.Run, Runner.runInstallers, the set -e script): once a
\* Task has failed it is the last Task attempted, the Tasks attempted are
\* exactly the declared Tasks up to it, every Task before it returned
\* successfully, and the run has ended with a failure status.
C12_FailFast ==
  run.kind \in FailFastKinds =>
    \A n \in FailedTasks :
      /\ Len(run.started) = n
      /\ Len(run.report) = n
      /\ run.started = DeclaredPrefix(n)
      /\ \A m \in 1..(n - 1) : run.report[m].ok /\ run.report[m].name = run.started[m]
      /\ run.pc = "Exit"
      /\ run.exit = "1"
      /\ run.err # "nil"

\* the third Task of Setup.Run failed after two successful ones
C12_Witness ==
  /\ run.kind = "Setup"
  /\ Len(run.report) = 3
  /\ ~run.report[3].ok
  /\ run.report[1].ok /\ run.report[2].ok
  /\ run.exit = "1"

\* C13: continue-on-error (setup.sh): whatever Tasks have failed, the Tasks
\* attempted so far are exactly the first declared Tasks, each once and in
\* declared order, the next declared Task is the next one attempted, and the
\* script ends only after all declared Tasks were attempted.
C13_ContinueOnError ==
  run.kind = "SetupSh" =>
    /\ run.started = DeclaredPrefix(Len(run.started))
    /\ Len(run.report) = Len(run.started)
    /\ \A n \in 1..Len(run.report) : run.report[n].name = run.started[n]
    /\ run.k = Len(run.started) + 1
    /\ run.pc = "Exit" => run.started = DeclaredPrefix(Len(SetupShTasks))

\* setup.sh ended after its first, fourth and last Task failed
C13_Witness ==
  /\ run.kind = "SetupSh"
  /\ run.pc = "Exit"
  /\ FailedTasks = {1, 4, Len(SetupShTasks)}
  /\ Len(run.started) = Len(SetupShTasks)

\* C14: a run that has ended (without running out of its time budget) has
\* exit status 0 if and only if its pre-flight succeeded and none of its
\* Tasks failed.
C14_OverallResult ==
  (run.pc = "Exit" /\ ~run.ctxDone) =>
    ((run.exit = "0") <=> (run.err # "preflight" /\ FailedTasks = {}))

\* some pre-install check of this run failed
PreFailed == \E n \in 1..Len(run.pre) : ~run.pre[n]

\* C15: pre-flight (Runner): when a pre-install check fails the run ends at
\* once with an error that is the pre-flight error, and no Installer's
\* Install has been or will be invoked in that run; conversely Install is
\* only ever invoked after every pre-install check passed.
C15_PreflightGuardsInstall ==
  run.kind = "Runner" =>
    /\ PreFailed <=> run.err = "preflight"
    /\ PreFailed =>
         (run.pc = "Exit" /\ run.exit = "1" /\ run.started = <<>> /\ run.execs = <<>>)
    /\ run.started # <<>> => run.pre = [n \in 1..Len(PreChecks) |-> TRUE]

\* the run ended on a failed network check (the three checks before the
\* first curl passed, a later one failed)
C15_Witness ==
  /\ run.kind = "Runner"
  /\ PreFailed
  /\ Len(run.pre) = 7
  /\ run.pc = "Exit"
  /\ run.started = <<>>

\* C16: post-flight is advisory (Runner): no step of the post-install check
\* changes the Tasks attempted, their recorded outcomes or the commands run,
\* and the run that went through it ends with exit status 0 and a nil error,
\* whatever the check found (it is only reached when every Task succeeded).
C16_PostflightAdvisory ==
  [][(run.kind = "Runner" /\ run.pc = "Postflight") =>
       /\ run'.report = run.report
       /\ run'.started = run.started
       /\ run'.execs = run.execs
       /\ \A n \in 1..Len(run.report) : run.report[n].ok
       /\ run'.pc = "Exit" => (run'.exit = "0" /\ run'.err = "nil")]_vars

\* the run ended successfully although the post-install check could not
\* check one Installer and found another one not installed
C16_Witness ==
  /\ run.kind = "Runner"
  /\ run.pc = "Exit"
  /\ run.exit = "0"
  /\ Len(run.post) = Len(initializeInstallers)
  /\ run.post[1] = "error"
  /\ run.post[2] = "missing"
  /\ FailedTasks = {}

\* C17: timeout determinism (Runner): once the time budget has run out no
\* further Task is started, and a run whose budget ran out before all its
\* Tasks had returned ends with a failure status; this for every moment at
\* which the budget can run out, the last Task included.
C17_TimeoutDeterminism ==
  [][run.kind = "Runner" =>
       /\ run.ctxDone => run'.started = run.started
       /\ (run'.pc = "Exit" /\ run'.expiredAt \in 0..(Len(initializeInstallers) - 1)) =>
            (run'.exit = "1" /\ run'.err # "nil")]_vars

\* C18: at-most-once install per run: no command that changes the machine is
\* run twice for the same tool during one run of an entry point.
C18_AtMostOnceInstall ==
  \A a, b \in 1..Len(run.execs) :
    (a < b /\ run.execs[a].effect /\ run.execs[a].tool = run.execs[b].tool)
      => run.execs[a].name # run.execs[b].name

\* C19: dry-run has no side effects: in a run started with --dry-run no
\* command that changes the machine is really executed.
C19_DryRunNoSideEffects ==
  run.dryRun => \A n \in 1..Len(run.execs) : ~run.execs[n].real

\* ----------------------------- Install() over every result of detection --
\* CheckInstalled is declared to return (bool, string, error); checkInstalled
\* as written never returns an error.  Here a call of it may also return an
\* error, so that what Install does with one (lines 370-378) is exercised.
DetectionError == [kind |-> "detect", idx |-> 0]

CheckErrors ==
  /\ InChecking
  /\ \E installed \in BOOLEAN, version \in {Empty, <<"1">>} :
       CheckReturns(CheckRet(installed, version, DetectionError))
  /\ UNCHANGED <<cmd, log, run>>

NextDetect ==
  \/ Invoke
  \/ CheckSkip
  \/ CheckExec
  \/ CheckExhausted
  \/ CheckErrors
  \/ StepSkip
  \/ StepExec
  \/ StepsDone
  \/ CustomAction

SpecDetect == Init /\ [][NextDetect]_vars

\* C20: when detection returns an error to Install, Install has returned the
\* failure outcome carrying that error (alreadyInstalled and success false,
\* empty version), and no install step, custom action or post-install probe
\* was executed.
C20_DetectionErrorIsTerminal ==
  (ret[1].returned /\ ret[1].err # Nil) =>
    /\ pc = "Done"
    /\ result.Err = ret[1].err
    /\ ~result.AlreadyInstalled
    /\ ~result.Success
    /\ result.Version = Empty
    /\ StepEvents = <<>>
    /\ CustomEvents = <<>>
    /\ ProbeEvents(2) = <<>>

\* detection returned an error after one probe had been run and had failed,
\* for a command that declares an install step
C20_Witness ==
  /\ ret[1].returned
  /\ ret[1].err = DetectionError
  /\ Len(ProbeEvents(1)) > 0
  /\ Runnable(cmd.InstallCommands) # {}
  /\ pc = "Done"

\* ======================================= the engine as functions ==========
\* The same code read as functions of the Task and of what the external
\* programs report, so that two calls can be compared on the same machine.
\* outs[k] is what running the k-th probe reports, oks[k] whether the k-th
\* install step exits with status 0.

RECURSIVE checkInstalledFrom(_, _, _, _, _)
checkInstalledFrom(checkCmds, outs, k, pass, calls) ==
  IF k > Len(checkCmds)
    THEN [ret |-> NotFoundRet, calls |-> calls]
    ELSE LET parts == Fields(checkCmds[k])
             ev == Event("probe", pass, k, parts, "", outs[k].ok, outs[k].out)
         IN IF NoTokens(parts)
              THEN checkInstalledFrom(checkCmds, outs, k + 1, pass, calls)
              ELSE IF outs[k].ok
                THEN [ret |-> FoundRet(outs[k].out), calls |-> Append(calls, ev)]
                ELSE checkInstalledFrom(checkCmds, outs, k + 1, pass, Append(calls, ev))

\* checkInstalled, lines 315-330: its return values and the probes it ran
checkInstalled(checkCmds, outs, pass) ==
  checkInstalledFrom(checkCmds, outs, 1, pass, <<>>)

RECURSIVE runInstallCommandsFrom(_, _, _, _)
runInstallCommandsFrom(installCmds, oks, k, calls) ==
  IF k > Len(installCmds)
    THEN [err |-> Nil, calls |-> calls]
    ELSE LET parts == Fields(installCmds[k])
             ev == Event("step", 0, k, parts, "", oks[k], Empty)
         IN IF NoTokens(parts)
              THEN runInstallCommandsFrom(installCmds, oks, k + 1, calls)
              ELSE IF ~oks[k]
                THEN [err |-> ExecError(k), calls |-> Append(calls, ev)]
                ELSE runInstallCommandsFrom(installCmds, oks, k + 1, Append(calls, ev))

\* runInstallCommands, lines 332-348: its error and the steps it ran
runInstallCommands(installCmds, oks) ==
  runInstallCommandsFrom(installCmds, oks, 1, <<>>)

\* Install, lines 404-410: nil is replaced by defaultInstallFunc, then called
InstallFuncOfInstall(f) ==
  LET installFunc == EffectiveInstallFunc(f)
      err == CallInstallFunc(installFunc)
  IN [err |-> err,
      calls |-> <<Event("custom", 0, 0, <<>>, installFunc, err = Nil, Empty)>>]

\* the stand-alone ExecuteInstall making the call although the func is nil
InstallFuncOfStandaloneNoNilTest(f) ==
  [err |-> IF f = "nil" THEN CustomError ELSE CallInstallFunc(f),
   calls |-> <<Event("custom", 0, 0, <<>>, f, f # "nil" /\ CallInstallFunc(f) = Nil, Empty)>>]

\* the stand-alone ExecuteInstall: "if cmd.InstallFunc != nil { ... }"
InstallFuncOfStandalone(f) ==
  IF f # "nil"
    THEN [err |-> CallInstallFunc(f),
          calls |-> <<Event("custom", 0, 0, <<>>, f, CallInstallFunc(f) = Nil, Empty)>>]
    ELSE [err |-> Nil, calls |-> <<>>]

\* the body shared by Install (lines 365-439) and the stand-alone
\* ExecuteInstall: the InstallResult returned and the calls made, where f is
\* what calling the custom install function gives, if it gets that far
InstallBody(c, env, f) ==
  LET d == checkInstalled(c.CheckCommands, env.probe[1], 1)
      s == runInstallCommands(c.InstallCommands, env.step)
      v == checkInstalled(c.CheckCommands, env.probe[2], 2)
  IN IF d.ret.err # Nil
       THEN [result |-> FailureResult(d.ret.err), log |-> d.calls]
     ELSE IF d.ret.installed
       THEN [result |-> AlreadyInstalledResult(d.ret.version), log |-> d.calls]
     ELSE IF s.err # Nil
       THEN [result |-> FailureResult(s.err), log |-> d.calls \o s.calls]
     ELSE IF f.err # Nil
       THEN [result |-> FailureResult(f.err), log |-> d.calls \o s.calls \o f.calls]
     ELSE [result |-> AfterVersion(getVersion(v.ret)),
           log |-> d.calls \o s.calls \o f.calls \o v.calls]

\* InstallCommand.Install
Install(c, env) == InstallBody(c, env, InstallFuncOfInstall(c.InstallFunc))

\* ExecuteInstall of package installer, lines 441-444: return cmd.Install()
ExecuteInstall(c, env) == Install(c, env)

\* the older stand-alone ExecuteInstall
ExecuteInstallStandalone(c, env) ==
  InstallBody(c, env, InstallFuncOfStandalone(c.InstallFunc))

\* ------------------------------------- one call on a given machine --------
MaxCallProbes == 2
MaxCallSteps == 2

\* Command specifications of the Tasks called here: " " and " b  v"
CallCmdStrs == { <<" ">>, <<" ", "b", " ", " ", "v">> }

CallCommands ==
  [CheckCommands : SeqsUpTo(CallCmdStrs, MaxCallProbes),
   InstallCommands : SeqsUpTo(CallCmdStrs, MaxCallSteps),
   InstallFunc : InstallFuncs,
   Name : {"Tool"}]

\* what a probe that is run can report; a specification without tokens is
\* never run, its entry is fixed
CallOutcomes == {o \in ProbeOutcomes : o.ok \/ o.out = Empty}

NotRun == [ok |-> FALSE, out |-> Empty]

OutsFor(l) ==
  {outs \in [1..Len(l) -> CallOutcomes] :
     \A k \in 1..Len(l) : NoTokens(Fields(l[k])) => outs[k] = NotRun}

OksFor(l) ==
  {oks \in [1..Len(l) -> BOOLEAN] :
     \A k \in 1..Len(l) : NoTokens(Fields(l[k])) => ~oks[k]}

\* the machine a Task c is called on: what its probes report before and
\* after the install, and the exit status of its install steps
EnvsFor(c) ==
  [probe : [1..2 -> OutsFor(c.CheckCommands)], step : OksFor(c.InstallCommands)]

NoOut ==
  [result |-> ZeroResult, log |-> <<>>, ret |-> NoRet,
   version |-> Empty, err |-> Nil]

\* run.called names the function that was called, run.out holds what it
\* returned and the external calls it made
InitCall ==
  /\ cmd \in CallCommands
  /\ pc = "Idle"
  /\ i = 1
  /\ ret = [p \in 1..2 |-> NoRet]
  /\ log = <<>>
  /\ result = ZeroResult
  /\ \E env \in EnvsFor(cmd) :
       run = [kind |-> "Call", env |-> env, called |-> "none", out |-> NoOut]

Called(name, out) ==
  /\ run.called = "none"
  /\ run' = [run EXCEPT !.called = name, !.out = out]
  /\ UNCHANGED engineVars

OutOfInstall(r) == [NoOut EXCEPT !.result = r.result, !.log = r.log]

OutOfCheck(d) == [NoOut EXCEPT !.ret = d.ret, !.log = d.calls]

\* the sequence s in reverse order
Reverse(s) == [k \in 1..Len(s) |-> s[Len(s) + 1 - k]]

\* cmd.Install()
CallInstall ==
  Called("Install", OutOfInstall(Install(cmd, run.env)))

\* ExecuteInstall(cmd)
CallExecuteInstall ==
  Called("ExecuteInstall", OutOfInstall(ExecuteInstall(cmd, run.env)))

\* the stand-alone ExecuteInstall(cmd)
CallExecuteInstallStandalone ==
  Called("ExecuteInstallStandalone", OutOfInstall(ExecuteInstallStandalone(cmd, run.env)))

\* cmd.CheckInstalled()
CallCheckInstalled ==
  Called("CheckInstalled", OutOfCheck(checkInstalled(cmd.CheckCommands, run.env.probe[1], 1)))

\* checkInstalled on the probes of cmd listed in reverse order
CallCheckInstalledReversed ==
  Called("CheckInstalledReversed",
         OutOfCheck(checkInstalled(Reverse(cmd.CheckCommands), Reverse(run.env.probe[1]), 1)))

\* getVersion(cmd.CheckCommands)
CallGetVersion ==
  LET d == checkInstalled(cmd.CheckCommands, run.env.probe[1], 1)
      v == getVersion(d.ret)
  IN Called("getVersion", [NoOut EXCEPT !.version = v.version, !.err = v.err, !.log = d.calls])

\* runInstallCommands(cmd.InstallCommands)
CallRunInstallCommands ==
  LET r == runInstallCommands(cmd.InstallCommands, run.env.step)
  IN Called("runInstallCommands", [NoOut EXCEPT !.err = r.err, !.log = r.calls])

NextCall ==
  \/ CallInstall
  \/ CallRunInstallCommands
  \/ CallExecuteInstall
  \/ CallExecuteInstallStandalone
  \/ CallCheckInstalled
  \/ CallCheckInstalledReversed
  \/ CallGetVersion

SpecCall == InitCall /\ [][NextCall]_vars

\* what the environment reported during the calls of log l, as a machine
EnvOfLog(c, l) ==
  [probe |->
     [p \in 1..2 |->
        [k \in 1..Len(c.CheckCommands) |->
           IF \E n \in 1..Len(l) : l[n].kind = "probe" /\ l[n].pass = p /\ l[n].idx = k
             THEN LET e == l[CHOOSE n \in 1..Len(l) :
                               l[n].kind = "probe" /\ l[n].pass = p /\ l[n].idx = k]
                  IN [ok |-> e.ok, out |-> e.out]
             ELSE NotRun]],
   step |->
     [k \in 1..Len(c.InstallCommands) |->
        \E n \in 1..Len(l) : l[n].kind = "step" /\ l[n].idx = k /\ l[n].ok]]

\* the step-by-step reading and the functional reading of Install agree:
\* a finished invocation returned what Install computes on the same machine
StepsAgreeWithInstall ==
  pc = "Done" =>
    Install(cmd, EnvOfLog(cmd, log)) = [result |-> result, log |-> log]

\* ---------------------------------------------------------------- C21 -----
\* the Task has exactly two probes A and B, both name a program and both
\* would succeed on this machine before the install
BothProbesSucceed ==
  /\ run.kind = "Call"
  /\ Len(cmd.CheckCommands) = 2
  /\ Runnable(cmd.CheckCommands) = {1, 2}
  /\ \A k \in 1..2 : run.env.probe[1][k].ok

\* C21 as stated: probe-list reversal.  For two probes A and B that would
\* both succeed, detection on [B, A] yields the same installed flag and the
\* same version as detection on [A, B].
C21_Original ==
  (BothProbesSucceed /\ run.called = "CheckInstalledReversed") =>
    LET fwd == checkInstalled(cmd.CheckCommands, run.env.probe[1], 1).ret
    IN /\ run.out.ret.installed = fwd.installed
       /\ run.out.ret.version = fwd.version

\* C21 amended: probe-list reversal.  For two probes A and B that would both
\* succeed, detection on [A, B] and on [B, A] both report installed without
\* error and run one probe only; the version is the trimmed output of the
\* probe listed first: of A for [A, B], of B for [B, A].
C21_ProbeListReversal ==
  BothProbesSucceed =>
    /\ run.called = "CheckInstalled" =>
         /\ run.out.ret.installed /\ run.out.ret.err = Nil
         /\ IsTrimOf(run.out.ret.version, run.env.probe[1][1].out)
         /\ Len(run.out.log) = 1 /\ run.out.log[1].argv = Fields(cmd.CheckCommands[1])
    /\ run.called = "CheckInstalledReversed" =>
         /\ run.out.ret.installed /\ run.out.ret.err = Nil
         /\ IsTrimOf(run.out.ret.version, run.env.probe[1][2].out)
         /\ Len(run.out.log) = 1 /\ run.out.log[1].argv = Fields(cmd.CheckCommands[2])

\* [B, A] was probed where A and B print different versions
C21_Witness ==
  /\ BothProbesSucceed
  /\ run.called = "CheckInstalledReversed"
  /\ run.out.ret.installed
  /\ run.out.ret.version # checkInstalled(cmd.CheckCommands, run.env.probe[1], 1).ret.version

\* ---------------------------------------------------------------- C22 -----
\* C22: Tasks are executed one at a time in declared order and the report is
\* in execution order: the Tasks begun are the first declared Tasks, at most
\* one Task has begun and not yet returned, it is the last one begun, and the
\* entries of the report are the outcomes of the Tasks begun, in that order.
C22_SequentialInOrder ==
  run.kind \in Kinds =>
    /\ run.started = DeclaredPrefix(Len(run.started))
    /\ Len(run.report) <= Len(run.started)
    /\ Len(run.started) <= Len(run.report) + 1
    /\ \A n \in 1..Len(run.report) : run.report[n].name = run.started[n]

\* the Runner is inside its third Task, the first two have returned
C22_Witness ==
  /\ run.kind = "Runner"
  /\ run.pc = "InTask"
  /\ Len(run.started) = 3
  /\ Len(run.report) = 2

\* ---------------------------------------------------------------- C23 -----
\* C23: the Task is immutable.  No step of Install() or CheckInstalled()
\* changes the name, the detection probes, the install steps or the custom
\* action of the Task; a nil custom action stays nil although Install calls
\* the default in its place.
C23_TaskImmutable ==
  [][/\ cmd'.Name = cmd.Name
     /\ cmd'.CheckCommands = cmd.CheckCommands
     /\ cmd'.InstallCommands = cmd.InstallCommands
     /\ cmd'.InstallFunc = cmd.InstallFunc]_vars

\* Install has returned after calling the default action for a Task whose
\* custom action is, and still is, nil
C23_Witness ==
  /\ pc = "Done"
  /\ cmd.InstallFunc = "nil"
  /\ \E n \in 1..Len(log) : log[n].kind = "custom" /\ log[n].fn = "default"
  /\ result.Success

\* ---------------------------------------------------------------- C24 -----
\* the commands and custom actions among the calls of log l; the no-op
\* default action runs nothing
ExecutedCommands(l) ==
  SelectSeq(l, LAMBDA e : ~(e.kind = "custom" /\ e.fn = "default"))

\* C24: ExecuteInstall(cmd), the one of package installer as well as the
\* older stand-alone one, returns the same InstallResult and executes the
\* same commands in the same order as cmd.Install() on the same machine.
C24_ExecuteInstallIsInstall ==
  (run.kind = "Call" /\ run.called \in {"ExecuteInstall", "ExecuteInstallStandalone"}) =>
    LET r == Install(cmd, run.env)
    IN /\ run.out.result = r.result
       /\ ExecutedCommands(run.out.log) = ExecutedCommands(r.log)

\* the stand-alone ExecuteInstall installed a Task that has install steps to
\* run and no custom action
C24_Witness ==
  /\ run.kind = "Call"
  /\ run.called = "ExecuteInstallStandalone"
  /\ cmd.InstallFunc = "nil"
  /\ Runnable(cmd.InstallCommands) # {}
  /\ run.out.result.Success
  /\ ~run.out.result.AlreadyInstalled
  /\ run.out.result.Version # Empty

\* ---------------------------------------------------------------- C25 -----
\* every external command returns and Install runs on: each step of Install
\* that can be taken is eventually taken
SpecLive == Init /\ [][Next]_vars /\ WF_vars(Next)

\* Install has returned an outcome that carries the error of the failed
\* step or custom action, if any
Completed ==
  /\ pc = "Done"
  /\ (StepFailed \/ CustomFailed) => (~result.Success /\ result.Err # Nil)
  /\ ~(StepFailed \/ CustomFailed) => (result.Success /\ result.Err = Nil)

\* C25: termination.  As long as every external command returns, every
\* Install() invocation eventually returns, and what it hands to its caller is
\* a completed outcome in which a failed install step or custom action is
\* recorded as the error.
C25_InstallTerminates ==
  <>[]Completed

\* Install returned the error of the custom action after running its steps
C25_Witness ==
  /\ pc = "Done"
  /\ CustomFailed
  /\ StepEvents # <<>>
  /\ result.Err = CustomError
  /\ ~result.Success

\* ---------------------------------------------------------------- C26 -----
\* every pre-install check was made and passed
PreflightPassed ==
  /\ Len(run.pre) = Len(PreChecks)
  /\ \A n \in 1..Len(run.pre) : run.pre[n]

\* C26: in every run of the Runner that passed pre-flight (and did not run
\* out of its time budget), post-flight detection has been run for each Task
\* by the time the run returns, whether or not a Task failed.
C26_PostflightAlwaysRuns ==
  (run.kind = "Runner" /\ run.pc = "Exit" /\ PreflightPassed /\ ~run.ctxDone) =>
    Len(run.post) = Len(initializeInstallers)

\* ---------------------------------------------------------------- C27 -----
\* the same Task with the no-op default as its custom action
WithDefaultAction(c) == [c EXCEPT !.InstallFunc = "default"]

\* C27: Install() of a Task without a custom action (nil) returns the same
\* InstallResult and makes the same calls, in the same order, as Install() of
\* the same Task with defaultInstallFunc on the same machine; the action that
\* is called is the default and it succeeds.
C27_NilActionIsDefault ==
  (run.kind = "Call" /\ run.called = "Install" /\ cmd.InstallFunc = "nil") =>
    LET r == Install(WithDefaultAction(cmd), run.env)
    IN /\ run.out.result = r.result
       /\ run.out.log = r.log
       /\ \A n \in 1..Len(run.out.log) :
            run.out.log[n].kind = "custom" =>
              (run.out.log[n].fn = "default" /\ run.out.log[n].ok)

\* Install of a Task without custom action ran a step, called the default
\* action and succeeded
C27_Witness ==
  /\ run.kind = "Call"
  /\ run.called = "Install"
  /\ cmd.InstallFunc = "nil"
  /\ \E n \in 1..Len(run.out.log) : run.out.log[n].kind = "step"
  /\ \E n \in 1..Len(run.out.log) : run.out.log[n].kind = "custom"
  /\ run.out.result.Success

\* ---------------------------------------------------------------- C28 -----
\* the probes of the Task that name a program and succeed on this machine
\* before the install
SucceedingProbes ==
  {k \in Runnable(cmd.CheckCommands) : run.env.probe[1][k].ok}

\* C28: getVersion(probes) returns the trimmed output of the first succeeding
\* probe and no error when some probe succeeds; it returns the empty version
\* and no error when no probe succeeds or the list is empty.
C28_GetVersion ==
  (run.kind = "Call" /\ run.called = "getVersion") =>
    /\ run.out.err = Nil
    /\ IF SucceedingProbes # {}
         THEN LET first == CHOOSE k \in SucceedingProbes :
                             \A m \in SucceedingProbes : k <= m
              IN IsTrimOf(run.out.version, run.env.probe[1][first].out)
         ELSE run.out.version = Empty

\* getVersion returned the version printed by the second probe after the
\* first one failed
C28_Witness ==
  /\ run.kind = "Call"
  /\ run.called = "getVersion"
  /\ SucceedingProbes = {2}
  /\ Runnable(cmd.CheckCommands) = {1, 2}
  /\ run.out.version = <<"2">>

\* ---------------------------------------------------------------- C29 -----
\* the positions in log of the calls that install: steps and custom action
InstallCalls == {n \in 1..Len(log) : log[n].kind \in {"step", "custom"}}

\* the positions in log of the probes of pass p
ProbeCalls(p) == {n \in 1..Len(log) : log[n].kind = "probe" /\ log[n].pass = p}

\* the call that a step of Install appends to log
NewCall == log'[Len(log')]

\* C29: within one Install() the probe list is evaluated at most twice.
\* Calls are only ever added at the end of log.  Every probe run belongs to
\* pass 1 or pass 2 and runs a specification of the Task's own probe list
\* that comes after the ones already run in that pass; a probe of pass 1 is
\* run before every install step, the custom action and pass 2; a probe of
\* pass 2 is run only after pass 1 found nothing and every install step and
\* the custom action was run and succeeded; and the version of a Success
\* outcome is the trimmed output of the first probe that succeeds in pass 2
\* (empty if none does).
C29_ProbesAtMostTwice ==
  [][/\ log' # log => log' = Append(log, NewCall)
     /\ (log' # log /\ NewCall.kind = "probe") =>
          /\ NewCall.pass \in {1, 2}
          /\ NewCall.idx \in 1..Len(cmd.CheckCommands)
          /\ NewCall.argv = Fields(cmd.CheckCommands[NewCall.idx])
          /\ \A n \in ProbeCalls(NewCall.pass) : log[n].idx < NewCall.idx
          /\ NewCall.pass = 1 => (InstallCalls = {} /\ ProbeCalls(2) = {})
          /\ NewCall.pass = 2 =>
               /\ \A m \in ProbeCalls(1) : ~log[m].ok
               /\ \A m \in InstallCalls : log[m].ok
               /\ \E m \in InstallCalls : log[m].kind = "custom"
               /\ \A k \in Runnable(cmd.InstallCommands) :
                    \E m \in InstallCalls : log[m].kind = "step" /\ log[m].idx = k
     /\ (pc # "Done" /\ pc' = "Done" /\ result'.Success /\ ~result'.AlreadyInstalled) =>
          LET found == {n \in 1..Len(log') :
                          log'[n].kind = "probe" /\ log'[n].pass = 2 /\ log'[n].ok}
          IN IF found # {}
               THEN LET first == CHOOSE n \in found : \A m \in found : n <= m
                    IN IsTrimOf(result'.Version, log'[first].out)
               ELSE result'.Version = Empty]_vars

\* Install succeeded after two steps; in the second pass the first probe
\* failed again and the second one printed the version
C29_Witness ==
  /\ pc = "Done"
  /\ result.Success /\ ~result.AlreadyInstalled
  /\ Len(StepEvents) = 2
  /\ Len(ProbeEvents(1)) = 2
  /\ Len(ProbeEvents(2)) = 2
  /\ ~ProbeEvents(2)[1].ok /\ ProbeEvents(2)[2].ok
  /\ result.Version = <<"2">>

\* ---------------------------------------------------------------- C30 -----
\* C30: checkInstalled never returns an error, in the first pass or in the
\* second, whatever the probe list and the results of the probes.  So when
\* the first pass ends it has found the tool exactly when a probe succeeded,
\* a pass in which no probe succeeded always leads into the installation, and
\* Install never returns a failure before it has run an install step or the
\* custom action.
C30_DetectionNeverErrs ==
  [][/\ \A p \in {1, 2} : ret'[p].returned => ret'[p].err = Nil
     /\ (pc = "Checking" /\ pc' # "Checking") =>
          /\ ret'[1].returned
          /\ ret'[1].installed <=> ProbeSucceeded(1)'
          /\ ~ProbeSucceeded(1)' => (pc' = "Installing" /\ result' = result)
          /\ pc' = "Done" => (result'.Success /\ result'.AlreadyInstalled)]_vars

\* the installation was entered after both probes of the first pass failed
C30_Witness ==
  /\ pc = "Installing"
  /\ Len(ProbeEvents(1)) = 2
  /\ ~ProbeSucceeded(1)
  /\ ret[1].returned /\ ~ret[1].installed /\ ret[1].err = Nil

\* ---------------------------------------------------------------- C31 -----
\* C31: every outcome Install returns with success = false has
\* alreadyInstalled = false and an empty version; a non-empty version appears
\* only in outcomes with success = true.
C31_FailureCarriesNothing ==
  [][pc' = "Done" =>
       /\ ~result'.Success => (~result'.AlreadyInstalled /\ result'.Version = Empty)
       /\ result'.Version # Empty => result'.Success]_vars

\* a failed outcome was returned after the second install step failed
C31_Witness ==
  /\ pc = "Done"
  /\ ~result.Success
  /\ Len(StepEvents) = 2
  /\ StepEvents[1].ok /\ ~StepEvents[2].ok
  /\ result.Version = Empty /\ ~result.AlreadyInstalled

\* ---------------------------------------------------------------- C32 -----
\* the install steps of the Task that name a program and fail on this machine
FailingSteps ==
  {k \in Runnable(cmd.InstallCommands) : ~run.env.step[k]}

\* the install steps runInstallCommands has to run on this machine: those
\* that name a program, up to the first one that fails
StepsToRun ==
  {k \in Runnable(cmd.InstallCommands) : \A m \in FailingSteps : k <= m}

\* C32: runInstallCommands skips an install step that parses to zero tokens
\* without failing and without running anything for it; the steps that name
\* a program are run in list order, each once, up to the first one that
\* fails; the error returned is that step's, and nil when none fails, in
\* particular for an empty list, which runs no command.
C32_EmptyStepsSkipped ==
  (run.kind = "Call" /\ run.called = "runInstallCommands") =>
    /\ {run.out.log[n].idx : n \in 1..Len(run.out.log)} = StepsToRun
    /\ \A n, m \in 1..Len(run.out.log) : n < m => run.out.log[n].idx < run.out.log[m].idx
    /\ \A n \in 1..Len(run.out.log) :
         /\ run.out.log[n].kind = "step"
         /\ run.out.log[n].argv # <<>>
         /\ run.out.log[n].argv = Fields(cmd.InstallCommands[run.out.log[n].idx])
    /\ run.out.err = Nil <=> FailingSteps = {}
    /\ cmd.InstallCommands = <<>> => (run.out.log = <<>> /\ run.out.err = Nil)

\* runInstallCommands skipped a first step without tokens, ran the second
\* step and returned no error
C32_Witness ==
  /\ run.kind = "Call"
  /\ run.called = "runInstallCommands"
  /\ Len(cmd.InstallCommands) = 2
  /\ Runnable(cmd.InstallCommands) = {2}
  /\ Len(run.out.log) = 1
  /\ run.out.log[1].idx = 2
  /\ run.out.err = Nil

\* ------------------------------------------- runInstallersParallel --------
\* the Installers runInstallersParallel starts a goroutine for
ParInstallers == 1..Len(initializeInstallers)

\* a channel with room for one error less than there are Installers
errChanCapOneShort == Len(initializeInstallers) - 1

\* errChan := make(chan error, len(r.installers))
errChanCap == Len(initializeInstallers)

\* the call of runInstallersParallel: main is the position of the function
\* (Loop, Wait, Close, Recv, Returned), m the next Installer of its loop, wg
\* the WaitGroup counter, errChan the buffered errors (by Installer), closed
\* whether errChan is closed, go the position of each goroutine (none,
\* Install, Send, Done, end), failed the Installers whose Install returned an
\* error, unfinished the goroutines still running at the return,
\* err the returned error ("running" before the return, 0 = nil, else the
\* Installer whose error it is)
InitPar ==
  /\ cmd = [CheckCommands |-> <<>>, InstallCommands |-> <<>>,
            InstallFunc |-> "nil", Name |-> "Tool"]
  /\ pc = "Idle"
  /\ i = 1
  /\ ret = <<NoRet, NoRet>>
  /\ log = <<>>
  /\ result = ZeroResult
  /\ run = [kind |-> "Par", main |-> "Loop", m |-> 1, wg |-> 0, errChan |-> <<>>,
            closed |-> FALSE, go |-> [g \in ParInstallers |-> "none"],
            failed |-> {}, unfinished |-> {}, err |-> "running"]

\* one iteration of the for loop: wg.Add(1) and the go statement; after the
\* last one the function goes on to wg.Wait()
parSpawn ==
  /\ run.kind = "Par"
  /\ run.main = "Loop"
  /\ IF run.m > Len(initializeInstallers)
       THEN run' = [run EXCEPT !.main = "Wait"]
       ELSE run' = [run EXCEPT !.wg = @ + 1, !.go[run.m] = "Install", !.m = @ + 1]
  /\ UNCHANGED engineVars

\* goroutine g: installer.Install(ctx) returns
goInstall(g) ==
  /\ run.kind = "Par"
  /\ run.go[g] = "Install"
  /\ \E ok \in BOOLEAN :
       run' = IF ok THEN [run EXCEPT !.go[g] = "Done"]
              ELSE [run EXCEPT !.go[g] = "Send", !.failed = @ \cup {g}]
  /\ UNCHANGED engineVars

\* goroutine g: errChan <- err; the send waits while the buffer is full
goSend(g) ==
  /\ run.kind = "Par"
  /\ run.go[g] = "Send"
  /\ Len(run.errChan) < errChanCap
  /\ ~run.closed
  /\ run' = [run EXCEPT !.errChan = Append(@, g), !.go[g] = "Done"]
  /\ UNCHANGED engineVars

\* goroutine g: the deferred wg.Done()
goDone(g) ==
  /\ run.kind = "Par"
  /\ run.go[g] = "Done"
  /\ run' = [run EXCEPT !.wg = @ - 1, !.go[g] = "end"]
  /\ UNCHANGED engineVars

\* wg.Wait() returns when the counter is zero
wgWait ==
  /\ run.kind = "Par"
  /\ run.main = "Wait"
  /\ run.wg = 0
  /\ run' = [run EXCEPT !.main = "Close"]
  /\ UNCHANGED engineVars

\* close(errChan)
closeErrChan ==
  /\ run.kind = "Par"
  /\ run.main = "Close"
  /\ run' = [run EXCEPT !.closed = TRUE, !.main = "Recv"]
  /\ UNCHANGED engineVars

\* err := <-errChan and the return: the first buffered error, or nil from
\* the closed and empty channel; unfinished are the goroutines that had not
\* ended at the return
recvErrChan ==
  /\ run.kind = "Par"
  /\ run.main = "Recv"
  /\ run.errChan # <<>> \/ run.closed
  /\ run' = [run EXCEPT
               !.main = "Returned",
               !.err = IF run.errChan # <<>> THEN Head(run.errChan) ELSE 0,
               !.errChan = IF run.errChan # <<>> THEN Tail(run.errChan) ELSE <<>>,
               !.unfinished = {g \in ParInstallers : run.go[g] # "end"}]
  /\ UNCHANGED engineVars

NextPar ==
  \/ parSpawn
  \/ \E g \in ParInstallers : goInstall(g)
  \/ \E g \in ParInstallers : goSend(g)
  \/ \E g \in ParInstallers : goDone(g)
  \/ wgWait
  \/ closeErrChan
  \/ recvErrChan

SpecPar == InitPar /\ [][NextPar]_vars

\* ---------------------------------------------------------------- C33 -----
\* C33: runInstallersParallel.  Under every interleaving a goroutine that has
\* an error to send finds room in errChan (it never waits on the channel, and
\* the channel is not yet closed); the function returns only after every
\* Installer's goroutine has ended; and the error it returns is non-nil
\* exactly when some Install failed, and then is the error of a failed one.
C33_ParallelJoin ==
  run.kind = "Par" =>
    /\ \A g \in ParInstallers :
         run.go[g] = "Send" => (Len(run.errChan) < errChanCap /\ ~run.closed)
    /\ run.main \in {"Close", "Recv", "Returned"} =>
         \A g \in ParInstallers : run.go[g] = "end"
    /\ run.main = "Returned" =>
         /\ run.unfinished = {}
         /\ run.err # 0 <=> run.failed # {}
         /\ run.err # 0 => run.err \in run.failed

\* the function returned the error of the third Installer, whose goroutine
\* was the first of three failing ones to send
C33_Witness ==
  /\ run.kind = "Par"
  /\ run.main = "Returned"
  /\ run.err = 3
  /\ Cardinality(run.failed) = 3
  /\ Len(run.errChan) = 2

\* ---------------------------------------------------------------- C34 -----
\* the Installers that failed the post-install check: not installed, or the
\* check itself returned an error
FailedPostChecks == {n \in 1..Len(run.post) : run.post[n] \in {"missing", "error"}}

\* C34: postInstallCheck examines the Installers one after another and goes
\* on after a failed check; when it returns every Installer has been
\* examined, it returns an error if and only if at least one Installer
\* failed the check, and the number of errors it reports is the number of
\* those Installers.
C34_PostflightExaminesAll ==
  run.kind = "Runner" =>
    /\ run.pc = "Postflight" => Len(run.post) = run.j - 1
    /\ run.postRet # -1 =>
         /\ Len(run.post) = Len(initializeInstallers)
         /\ run.postRet = Cardinality(FailedPostChecks)
         /\ run.postRet # 0 <=> FailedPostChecks # {}

\* postInstallCheck reported two errors: the first Installer could not be
\* checked and the last one was not installed
C34_Witness ==
  /\ run.kind = "Runner"
  /\ run.postRet = 2
  /\ run.post[1] = "error"
  /\ run.post[Len(initializeInstallers)] = "missing"
  /\ \A n \in 2..(Len(initializeInstallers) - 1) : run.post[n] = "installed"

\* ------------------------------------- CloneConfigs / clone_configs -------
\* how many times in a row the Task is run on the same machine
MaxCloneRuns == 2

\* the two implementations: Setup.CloneConfigs and clone_configs of setup.sh
CloneImpls == {"CloneConfigs", "clone_configs"}

\* what can be at ~/.config/nvim and ~/.config/fish
PathKinds == {"absent", "dir", "file"}

\* the test that never finds the configuration
ConfigPresentNever(impl, kind) ==
  FALSE

\* the test that guards a clone: `_, err := os.Stat(dir); os.IsNotExist(err)`
\* is false for whatever is there, `[ -d dir ]` is true for a directory
ConfigPresent(impl, kind) ==
  IF impl = "CloneConfigs" THEN kind # "absent" ELSE kind = "dir"

\* the exit status of `git clone url dir`: it can succeed only when nothing
\* is at dir
GitCloneOutcomes(kind) ==
  IF kind = "absent" THEN BOOLEAN ELSE {FALSE}

\* a successful clone creates the directory; a failed one leaves the path
GitCloneEffect(kind, ok) ==
  IF ok THEN "dir" ELSE kind

\* the Task on a machine: impl the implementation, fs what is at the two
\* paths, fs0 what was there at first, n the number of the run, at the
\* position in it (Idle, Mkdir, Nvim, Fish), clones the git clone calls of
\* this run, hist the clones and the result of the runs that have returned
InitClone ==
  /\ cmd = [CheckCommands |-> <<>>, InstallCommands |-> <<>>,
            InstallFunc |-> "nil", Name |-> "Tool"]
  /\ pc = "Idle"
  /\ i = 1
  /\ ret = <<NoRet, NoRet>>
  /\ log = <<>>
  /\ result = ZeroResult
  /\ \E impl \in CloneImpls : \E fs \in [{"nvim", "fish"} -> PathKinds] :
       run = [kind |-> "Clone", impl |-> impl, fs |-> fs, fs0 |-> fs, n |-> 1,
              at |-> "Idle", clones |-> <<>>, hist |-> <<>>]

\* the Task returns: its clones and result go to hist
CloneReturns(s, ok) ==
  [s EXCEPT !.hist = Append(@, [clones |-> s.clones, ok |-> ok]),
            !.at = "Idle", !.n = @ + 1, !.clones = <<>>]

\* the Task is called
cloneEnter ==
  /\ run.kind = "Clone"
  /\ run.at = "Idle"
  /\ run.n <= MaxCloneRuns
  /\ run' = [run EXCEPT !.at = "Mkdir"]
  /\ UNCHANGED engineVars

\* os.UserHomeDir and os.MkdirAll(configDir) / mkdir -p ~/.config
cloneMkdir ==
  /\ run.kind = "Clone"
  /\ run.at = "Mkdir"
  /\ \E ok \in BOOLEAN :
       run' = IF ok THEN [run EXCEPT !.at = "Nvim"] ELSE CloneReturns(run, FALSE)
  /\ UNCHANGED engineVars

\* `return err` / `|| return 1` after a failed clone; otherwise on to the
\* next configuration, or `return nil` / `return 0` after the last one
AfterClone(s, ok, last) ==
  IF ~ok THEN CloneReturns(s, FALSE)
  ELSE IF last THEN CloneReturns(s, TRUE)
  ELSE [s EXCEPT !.at = "Fish"]

\* the block for the configuration at path: the test, and git clone when the
\* test finds nothing
CloneBlock(path, last) ==
  IF ConfigPresent(run.impl, run.fs[path])
    THEN run' = AfterClone(run, TRUE, last)
    ELSE \E ok \in GitCloneOutcomes(run.fs[path]) :
           run' = AfterClone(
                    [run EXCEPT !.clones = Append(@, [path |-> path, before |-> run.fs[path], ok |-> ok]),
                                !.fs[path] = GitCloneEffect(@, ok)],
                    ok, last)

\* the Neovim block
cloneNvim ==
  /\ run.kind = "Clone"
  /\ run.at = "Nvim"
  /\ CloneBlock("nvim", FALSE)
  /\ UNCHANGED engineVars

\* the Fish block
cloneFish ==
  /\ run.kind = "Clone"
  /\ run.at = "Fish"
  /\ CloneBlock("fish", TRUE)
  /\ UNCHANGED engineVars

NextClone ==
  \/ cloneEnter
  \/ cloneMkdir
  \/ cloneNvim
  \/ cloneFish

SpecClone == InitClone /\ [][NextClone]_vars

\* ---------------------------------------------------------------- C35 -----
\* the runs of the Task so far, the one going on included
CloneRuns ==
  IF run.at = "Idle" THEN run.hist
  ELSE Append(run.hist, [clones |-> run.clones, ok |-> TRUE])

\* C35: CloneConfigs / clone_configs never overwrites an existing
\* configuration.  git clone is invoked for a path only when no directory is
\* there; whatever was at a path at first is still there; a run that follows
\* a successful run invokes no git clone; and a failed clone is the last
\* thing its run does (after a failed nvim clone no fish clone), the run
\* returning a failure.
C35_CloneOnlyWhenAbsent ==
  run.kind = "Clone" =>
    /\ \A r \in 1..Len(CloneRuns) : \A k \in 1..Len(CloneRuns[r].clones) :
         CloneRuns[r].clones[k].before # "dir"
    /\ \A p \in {"nvim", "fish"} : run.fs0[p] # "absent" => run.fs[p] = run.fs0[p]
    /\ \A r \in 2..Len(CloneRuns) :
         run.hist[r - 1].ok => CloneRuns[r].clones = <<>>
    /\ \A r \in 1..Len(run.hist) : \A k \in 1..Len(run.hist[r].clones) :
         ~run.hist[r].clones[k].ok =>
           (k = Len(run.hist[r].clones) /\ ~run.hist[r].ok)
    /\ \A k \in 1..Len(run.clones) : run.clones[k].ok

\* the first run cloned both configurations and the second run, which has
\* returned, cloned nothing
C35_Witness ==
  /\ run.kind = "Clone"
  /\ Len(run.hist) = 2
  /\ Len(run.hist[1].clones) = 2
  /\ run.hist[1].ok
  /\ run.hist[2].clones = <<>>
  /\ run.hist[2].ok

\* --------------------------------------- InstallFish / install_fish -------
\* the two implementations: Setup.InstallFish and install_fish of setup.sh
FishImpls == {"InstallFish", "install_fish"}

\* how many times in a row the Task is run on the same machine
MaxFishRuns == 2

\* the values of $SHELL; fish, once installed, is found at /usr/bin/fish
Shells == {"/bin/bash", "/bin/zsh", "/usr/bin/fish"}

\* the Task on a machine: impl the implementation, onPath whether fish is on
\* the PATH (onPath0: at first), shell the value of $SHELL, at the position
\* (Start, Apt, Shell, Chsh, Returned), fishPath the path the default-shell
\* step resolved ("" if none), cmds the commands run, ok the result, n the
\* number of the run
InitFish ==
  /\ cmd = [CheckCommands |-> <<>>, InstallCommands |-> <<>>,
            InstallFunc |-> "nil", Name |-> "Tool"]
  /\ pc = "Idle"
  /\ i = 1
  /\ ret = <<NoRet, NoRet>>
  /\ log = <<>>
  /\ result = ZeroResult
  /\ \E impl \in FishImpls : \E onPath \in BOOLEAN : \E shell \in Shells :
       run = [kind |-> "Fish", impl |-> impl, onPath |-> onPath, onPath0 |-> onPath,
              shell |-> shell, at |-> "Start", fishPath |-> "", cmds |-> <<>>,
              ok |-> TRUE, n |-> 1]

\* command name was run and exited with ok
FishRan(s, name, ok) == [s EXCEPT !.cmds = Append(@, [name |-> name, ok |-> ok])]

\* the Task returns ok
FishReturns(s, ok) == [s EXCEPT !.at = "Returned", !.ok = ok]

\* s.commandExists("fish") / command -v fish
fishEnter ==
  /\ run.kind = "Fish"
  /\ run.at = "Start"
  /\ run' = [run EXCEPT !.at = IF run.onPath THEN "Shell" ELSE "Apt"]
  /\ UNCHANGED engineVars

\* sudo apt-get update and sudo apt-get install -y fish; each failure
\* returns; after the install fish is normally, not necessarily, on the PATH
fishApt ==
  /\ run.kind = "Fish"
  /\ run.at = "Apt"
  /\ \/ run' = FishReturns(FishRan(run, "apt-get update", FALSE), FALSE)
     \/ run' = FishReturns(FishRan(FishRan(run, "apt-get update", TRUE),
                                   "apt-get install", FALSE), FALSE)
     \/ \E found \in BOOLEAN :
          run' = [FishRan(FishRan(run, "apt-get update", TRUE), "apt-get install", TRUE)
                    EXCEPT !.at = "Shell", !.onPath = found]
  /\ UNCHANGED engineVars

\* exec.LookPath("fish"), whose error returns / FISH_PATH=$(which fish),
\* whose failure leaves FISH_PATH empty; then the comparison with $SHELL
fishLookPath ==
  /\ run.kind = "Fish"
  /\ run.at = "Shell"
  /\ LET path == IF run.onPath THEN "/usr/bin/fish" ELSE ""
         s == [FishRan(run, "lookpath", run.onPath) EXCEPT !.fishPath = path]
     IN run' = IF run.impl = "InstallFish" /\ ~run.onPath
                 THEN FishReturns(s, FALSE)
               ELSE IF run.shell # path
                 THEN [s EXCEPT !.at = "Chsh"]
               ELSE FishReturns(s, TRUE)
  /\ UNCHANGED engineVars

\* a failed chsh is ignored by both implementations
AfterChshIgnoreError(impl, ok) ==
  TRUE

\* the result after chsh: `return err` in Go; setup.sh logs the failure and
\* returns 0
AfterChsh(impl, ok) ==
  IF impl = "InstallFish" THEN ok ELSE TRUE

\* chsh -s fishPath
fishChsh ==
  /\ run.kind = "Fish"
  /\ run.at = "Chsh"
  /\ \E ok \in {b \in BOOLEAN : run.fishPath = "" => ~b} :
       run' = FishReturns(FishRan(run, "chsh", ok), AfterChsh(run.impl, ok))
  /\ UNCHANGED engineVars

\* the Task is run again, in the same session or, the default shell having
\* been changed, after a new login
fishAgain ==
  /\ run.kind = "Fish"
  /\ run.at = "Returned"
  /\ run.n < MaxFishRuns
  /\ \E shell \in {run.shell} \cup
                   (IF \E k \in 1..Len(run.cmds) : run.cmds[k] = [name |-> "chsh", ok |-> TRUE]
                      THEN {run.fishPath} ELSE {}) :
       run' = [run EXCEPT !.n = @ + 1, !.at = "Start", !.shell = shell,
                          !.onPath0 = run.onPath, !.fishPath = "", !.cmds = <<>>,
                          !.ok = TRUE]
  /\ UNCHANGED engineVars

NextFish ==
  \/ fishEnter
  \/ fishAgain
  \/ fishApt
  \/ fishLookPath
  \/ fishChsh

SpecFish == InitFish /\ [][NextFish]_vars

\* ---------------------------------------------------------------- C36 -----
\* the command name has been run / has been run and failed
FishDid(name) == \E k \in 1..Len(run.cmds) : run.cmds[k].name = name
FishFailed(name) == \E k \in 1..Len(run.cmds) : run.cmds[k].name = name /\ ~run.cmds[k].ok

\* C36: InstallFish / install_fish.  The apt commands run only when fish was
\* not on the PATH; a Task that returns after finding fish installed, or
\* after installing it, has run the default-shell step; chsh is invoked if
\* and only if that step resolved the path of fish and $SHELL differs from it
\* (in setup.sh an unresolved path is the empty string, which differs); and a
\* failed chsh makes the Go Task fail, while setup.sh returns success.
C36_InstallFish ==
  run.kind = "Fish" =>
    /\ (FishDid("apt-get update") \/ FishDid("apt-get install")) => ~run.onPath0
    /\ (run.at = "Returned" /\ ~FishFailed("apt-get update") /\ ~FishFailed("apt-get install"))
         => FishDid("lookpath")
    /\ FishDid("chsh") =>
         (FishDid("lookpath") /\ run.shell # run.fishPath
          /\ (run.impl = "InstallFish" => run.fishPath # ""))
    /\ (run.at = "Returned" /\ FishDid("lookpath") /\ run.shell # run.fishPath
        /\ (run.impl = "InstallFish" => run.fishPath # ""))
         => FishDid("chsh")
    /\ (run.at = "Returned" /\ FishFailed("chsh")) =>
         (run.ok <=> run.impl = "install_fish")

\* the Go Task installed fish, then failed because chsh failed
C36_Witness ==
  /\ run.kind = "Fish"
  /\ run.impl = "InstallFish"
  /\ run.at = "Returned"
  /\ FishDid("apt-get install") /\ ~FishFailed("apt-get install")
  /\ FishFailed("chsh")
  /\ ~run.ok

\* ---------------------------------------------------------- type check ---
TypeOK ==
  /\ cmd \in InstallCommand
  /\ pc \in {"Idle", "Checking", "Installing", "CustomAction", "VersionResolving", "Done"}
  /\ i \in 1..(MaxProbes + MaxSteps + 1)
  /\ Len(log) <= 2 * MaxProbes + MaxSteps + 1

====
